---------------------------- MODULE Spec2Model ----------------------------
(***************************************************************************)
(* Emergency-ward cluster (SistemaDistribuidoV4).                          *)
(*                                                                         *)
(* Three state machines live in this module, over disjoint variables:      *)
(*   SpecStore   the Flask/SQLAlchemy per-node store and its write paths   *)
(*               (backend/src/routes/cluster_api.py, console/actions.py,   *)
(*               textual_app/screens, models.py);                          *)
(*   SpecLegacy  "Primer entregable.py": socket peers with the distributed *)
(*               lock table, the consensus broadcast and the sqlite store; *)
(*   SpecBully   the election engine (bully/bully_node.py), modelled from  *)
(*               the design of section 4.4.                                *)
(***************************************************************************)
EXTENDS Integers, Sequences, FiniteSets, Bags, TLC

(***************************************************************************)
(* Bounds of the model.                                                    *)
(***************************************************************************)
NumNodos == 2
NumDoctores == 1
NumCamas == 1
MaxVisitas == 2
MaxDias == 2
MaxHandlers == 2

Nodos == 1..NumNodos
Salas == Nodos
Doctores == 1..NumDoctores
Camas == 1..NumCamas
Pacientes == {1}
Dias == 1..MaxDias

\* A primary key that matches no row (Model.query.get returns None).
NoExiste == 0
\* A field that the request does not carry.
Falta == -1
\* SQL NULL / Python None.
Nulo == 0
\* The one non-empty diagnosis text the doctor types.
Diagnostico == 1
\* datetime.utcnow() of a closing (one instant stands for all of them).
Ahora == 1
\* An empty slot (no form open); a busy slot holds <<request>>.
Libre == <<>>

VARIABLES
  \* ---- SpecStore ----
  doctores,             \* doctores[n][d]: DOCTORES.disponible in node n's store
  camas,                \* camas[n][c]: [ocupada, id_paciente] of CAMAS
  visitas,              \* visitas[n]: rows of VISITAS_EMERGENCIA, by id_visita
  consecutivos,         \* consecutivos[n][<<sala, fecha>>]: CONSECUTIVOS rows (0: no row)
  hoy,                  \* datetime.utcnow().date()
  consola,              \* consola[n]: the leader-console form waiting for confirmation
  red,                  \* red[n]: replicate-visit payloads posted to node n
  handlers,             \* handlers[n]: bag of replicate-visit requests past the folio
                        \* lookup, each with what the lookup should have seen (tenia)
  emitidos,             \* history: <<node, folio>> of every successful creation
  devueltos,            \* history: devueltos[n][s]: last value get_next_consecutivo returned
  resp                  \* the response of the last operation, with what it observed

storeVars == <<doctores, camas, visitas, consecutivos, hoy,
               consola, red, handlers, emitidos,
               devueltos, resp>>

VARIABLES
  \* ---- SpecLegacy ----
  bloqueos_locales,     \* bloqueos_locales[n]: the keys in node n's lock table
  DOCTORES,             \* DOCTORES[n][d]: disponible
  CAMAS_ATENCION,       \* CAMAS_ATENCION[n][c]: [ocupada, paciente_id]
  VISITAS_EMERGENCIA,   \* VISITAS_EMERGENCIA[n]: rows in insertion order
  CONSECUTIVOS_VISITAS, \* CONSECUTIVOS_VISITAS[n]: ultimo_consecutivo (0: no row)
  proc,                 \* proc[n]: where node n's console user is in asignar_doctor_y_cama
  liberaciones,         \* LIBERAR_BLOQUEO messages sent and not yet handled: <<node, key>>
  concedidos,           \* history: keys node n acquired (returned True) and has not released
  lresp                 \* the outcome of the last console operation

legacyVars == <<bloqueos_locales, DOCTORES, CAMAS_ATENCION, VISITAS_EMERGENCIA,
                CONSECUTIVOS_VISITAS, proc, liberaciones, concedidos, lresp>>

VARIABLES
  \* ---- SpecBully ----
  state,                \* state[n]: "FOLLOWER", "CANDIDATE" or "LEADER"
  current_term,         \* current_term[n]: the Term of node n
  current_leader,       \* current_leader[n]: LeaderRef (0: none)
  vivo,                 \* vivo[n]: the node's process is running
  buzon                 \* ELECTION, OK and COORDINATOR messages in flight

bullyVars == <<state, current_term, current_leader, vivo, buzon>>

VARIABLES
  \* ---- SpecConsenso ----
  total_nodos,          \* len(NODOS_REMOTOS) of the node that propagates
  almacen,              \* commands applied to the originator's store
  almacen_remoto,       \* almacen_remoto[i]: commands applied to peer i's store
  cresp                 \* the outcome of the last propagar_transaccion_con_consenso

consensoVars == <<total_nodos, almacen, almacen_remoto, cresp>>

VARIABLES
  \* ---- SpecBullyVivo (history of the election cluster) ----
  caido,                \* the leader that was killed, its Term and the highest Term then
  entrante,             \* the last node that joined above every running node
  tope                  \* the cap on Term in force

historiaVars == <<caido, entrante, tope>>

VARIABLES
  \* ---- SpecProxy (one node's create_visit entry points) ----
  lider_ref,            \* bully_manager.get_current_leader() (0: None)
  pc,                   \* where the console create_visit is
  is_leader,            \* create_visit: is_leader, read when the action starts
  attempt,              \* create_visit: attempt of the retry loop
  transaccion,          \* db.session of the console action
  insertadas,           \* visits this node inserted into its own store
  como_seguidor,        \* history: a visit was inserted while the node was not leader
  enviadas,             \* history: the leaders the current action posted to
  presp                 \* the outcome of the last console create_visit

proxyVars == <<lider_ref, pc, is_leader, attempt, transaccion,
               insertadas, como_seguidor, enviadas, presp>>

VARIABLES
  \* ---- SpecReplica (the leader's create-visit and its replication) ----
  vlider,               \* visits committed in the leader's store
  rresp                 \* the last create-visit response, with what the replication did

replVars == <<vlider, rresp>>

VARIABLES
  \* ---- SpecGenerador / SpecIdentidad (node ids and the ports of the host) ----
  tcp_en_uso,           \* port numbers some socket of the host is bound to, TCP
  udp_en_uso,           \* port numbers some socket of the host is bound to, UDP
  gresp,                \* the outcome of the last generate_node_id call
  nproc,                 \* nproc[p]: a node process: where it is, its NODE_ID
  archivo,              \* archivo[p]: the text of node_pid_<p>.json (<<>>: no file)
  iresp                 \* the outcome of the last get_or_create_node_id call

identidadVars == <<tcp_en_uso, udp_en_uso, gresp, nproc, archivo, iresp>>

VARIABLES
  \* ---- SpecDiscovery (the discovery agent of one node) ----
  reloj,                \* time.time(), in units of announce_interval
  discovered_nodes,     \* node_id -> [host, last_seen]
  dresp                 \* what the last step of the agent did

discVars == <<reloj, discovered_nodes, dresp>>

VARIABLES
  \* ---- SpecStats (the aggregate statistics of the cluster) ----
  sresp                 \* the last get_all_cluster_stats call and what it returned

statsVars == <<sresp>>

VARIABLES
  \* ---- SpecCandado (the distributed lock manager of "Primer entregable.py") ----
  conocidos,            \* NODOS_REMOTOS of every node
  entradas,             \* bloqueos_locales of every node: per key, for whom it was written
  recurso_libre,        \* what verificar_recurso_local finds in every store
  hilo,                 \* the console thread of every node, inside or outside an acquire
  manejadores,          \* handle_client threads busy with a SOLICITAR_BLOQUEO_ATOMICO
  bresp,                \* the last acquire that returned
  solicitudes           \* acquires started so far

candadoVars == <<conocidos, entradas, recurso_libre, hilo, manejadores, bresp, solicitudes>>

VARIABLES
  \* ---- SpecFlujo (the workflows of "Primer entregable.py" that take two locks) ----
  retenidos,            \* keys this node acquired and has not released
  fresp                 \* the last workflow that ended

flujoVars == <<retenidos, fresp>>

VARIABLES
  \* ---- SpecAgente (the threads of the discovery agent and of its peers) ----
  vecinos,              \* discovered_nodes of the agent: node_id -> host, ports, age
  limpieza,             \* the cleanup thread: asleep, or removing nodes_to_remove
  canal,                \* the datagrams on their way to the agent, in order
  par,                  \* every peer: running, its announce thread, its stop()
  aresp                 \* what the last step of the agent did

agenteVars == <<vecinos, limpieza, canal, par, aresp>>

VARIABLES
  \* ---- SpecConsecutivo (obtener_siguiente_consecutivo of "Primer entregable.py") ----
  ultimo_consecutivo,   \* CONSECUTIVOS_VISITAS of every node, its own sala; 0: no row
  qresp                 \* the last call

consecutivoVars == <<ultimo_consecutivo, qresp>>

VARIABLES
  \* ---- SpecReenvio (one proxied CreateVisit, follower and leaders) ----
  lider_http,      \* the leader get_leader_flask_url resolves; 0: none
  doctor_libre,    \* on every node that can lead: doctor and bed of the request are free
  creadas,         \* visits every node created for the request
  vuelta,          \* attempt of "for attempt in range(max_retries)"
  etapa,           \* "menu", "reintentos", "fin"
  vresp            \* what create_visit returned

reenvioVars == <<lider_http, doctor_libre, creadas, vuelta, etapa, vresp>>

vars == <<storeVars, legacyVars, bullyVars, consensoVars, historiaVars, proxyVars, replVars, identidadVars, discVars, statsVars, candadoVars, flujoVars, agenteVars, consecutivoVars, reenvioVars>>

\* What each machine leaves alone.
fueraDeStore == <<legacyVars, bullyVars, consensoVars, historiaVars, proxyVars, replVars, identidadVars, discVars, statsVars, candadoVars, flujoVars, agenteVars, consecutivoVars, reenvioVars>>
fueraDeLegacy == <<storeVars, bullyVars, consensoVars, historiaVars, proxyVars, replVars, identidadVars, discVars, statsVars, candadoVars, flujoVars, agenteVars, consecutivoVars, reenvioVars>>
fueraDeBully == <<storeVars, legacyVars, consensoVars, historiaVars, proxyVars, replVars, identidadVars, discVars, statsVars, candadoVars, flujoVars, agenteVars, consecutivoVars, reenvioVars>>
fueraDeConsenso == <<storeVars, legacyVars, bullyVars, historiaVars, proxyVars, replVars, identidadVars, discVars, statsVars, candadoVars, flujoVars, agenteVars, consecutivoVars, reenvioVars>>
fueraDeEleccion == <<storeVars, legacyVars, consensoVars, proxyVars, replVars, identidadVars, discVars, statsVars, candadoVars, flujoVars, agenteVars, consecutivoVars, reenvioVars>>
fueraDeProxy == <<storeVars, legacyVars, bullyVars, consensoVars, historiaVars, replVars, identidadVars, discVars, statsVars, candadoVars, flujoVars, agenteVars, consecutivoVars, reenvioVars>>
fueraDeReplica == <<storeVars, legacyVars, bullyVars, consensoVars, historiaVars, proxyVars, identidadVars, discVars, statsVars, candadoVars, flujoVars, agenteVars, consecutivoVars, reenvioVars>>
fueraDeIdentidad == <<storeVars, legacyVars, bullyVars, consensoVars, historiaVars, proxyVars, replVars, discVars, statsVars, candadoVars, flujoVars, agenteVars, consecutivoVars, reenvioVars>>
fueraDeDiscovery == <<storeVars, legacyVars, bullyVars, consensoVars, historiaVars, proxyVars, replVars, identidadVars, statsVars, candadoVars, flujoVars, agenteVars, consecutivoVars, reenvioVars>>
fueraDeStats == <<storeVars, legacyVars, bullyVars, consensoVars, historiaVars, proxyVars, replVars, identidadVars, discVars, candadoVars, flujoVars, agenteVars, consecutivoVars, reenvioVars>>
fueraDeCandado == <<storeVars, legacyVars, bullyVars, consensoVars, historiaVars, proxyVars, replVars, identidadVars, discVars, statsVars, flujoVars, agenteVars, consecutivoVars, reenvioVars>>
fueraDeFlujo == <<storeVars, legacyVars, bullyVars, consensoVars, historiaVars, proxyVars, replVars, identidadVars, discVars, statsVars, candadoVars, agenteVars, consecutivoVars, reenvioVars>>
fueraDeAgente == <<storeVars, legacyVars, bullyVars, consensoVars, historiaVars, proxyVars, replVars, identidadVars, discVars, statsVars, candadoVars, flujoVars, consecutivoVars, reenvioVars>>
fueraDeConsecutivo == <<storeVars, legacyVars, bullyVars, consensoVars, historiaVars, proxyVars, replVars, identidadVars, discVars, statsVars, candadoVars, flujoVars, agenteVars, reenvioVars>>
fueraDeReenvio == <<storeVars, legacyVars, bullyVars, consensoVars, historiaVars, proxyVars, replVars, identidadVars, discVars, statsVars, candadoVars, flujoVars, agenteVars, consecutivoVars>>

(***************************************************************************)
(* Seed data: every node's store holds the same DOCTORES and CAMAS rows;   *)
(* a doctor and a bed belong to one sala (id_sala).                        *)
(***************************************************************************)
DoctorSala(d) == ((d - 1) % NumNodos) + 1
CamaSala(c) == ((c - 1) % NumNodos) + 1

(***************************************************************************)
(* Folios.  models.py:289 renders                                          *)
(*   f"{id_paciente}+{id_doctor}+{id_sala}+{consecutivo:03d}".             *)
(* The '+' separators keep the four fields apart, so the text is modelled  *)
(* as the tuple of the fields, the consecutive as its zero-padded digits.  *)
(***************************************************************************)
RECURSIVE Digitos(_)
Digitos(k) == IF k < 10 THEN <<k>> ELSE Append(Digitos(k \div 10), k % 10)

Pad3(k) ==
  IF k < 10 THEN <<0, 0, k>>
  ELSE IF k < 100 THEN <<0, k \div 10, k % 10>>
  ELSE Digitos(k)

\* get_next_consecutivo: the row of (id_sala, today), created at 1 or advanced by one.
get_next_consecutivo(n, s) ==
  IF consecutivos[n][<<s, hoy>>] = 0 THEN 1
  ELSE consecutivos[n][<<s, hoy>>] + 1

\* generate_folio (before_insert): only for a visit that carries no folio.
generate_folio(n, p, d, s) == <<p, d, s, Pad3(get_next_consecutivo(n, s))>>

\* VISITAS_EMERGENCIA.folio is UNIQUE: an INSERT of a held folio raises IntegrityError.
FolioUnico(n, f) == \A i \in DOMAIN visitas[n] : visitas[n][i].folio # f

\* VisitaEmergencia(...) as the creation paths build it (estado='activa').
NuevaVisita(n, p, d, c, s) ==
  [folio |-> generate_folio(n, p, d, s), id_paciente |-> p, id_doctor |-> d,
   id_cama |-> c, id_sala |-> s, estado |-> "activa",
   diagnostico |-> Nulo, fecha_cierre |-> Nulo]

\* The rows the flush of get_next_consecutivo leaves in CONSECUTIVOS.
ConsecutivosTras(n, s) ==
  [consecutivos EXCEPT ![n][<<s, hoy>>] = get_next_consecutivo(n, s)]

\* doctor.disponible = False
OcuparDoctor(n, d) == [doctores EXCEPT ![n][d] = FALSE]

\* cama.ocupada = True; cama.id_paciente = id_paciente
OcuparCama(n, c, p) == [camas EXCEPT ![n][c] = [ocupada |-> TRUE, id_paciente |-> p]]

\* replicate_visit_to_cluster: one POST /replicate-visit per other node.
Replicar(n, v) == [m \in Nodos |-> IF m = n THEN red[m] ELSE red[m] \cup {v}]

\* The response record; every operation fills the fields it has.
RespBase ==
  [op |-> "none", nodo |-> 0, ok |-> FALSE, error |-> "none", via |-> "none",
   folio |-> <<>>, visita |-> 0, libre |-> FALSE, tenia |-> FALSE,
   cambio |-> FALSE, seq |-> 0, seqAnt |-> 0, autorizado |-> FALSE]

DoctoresDisponibles(n) == {d \in Doctores : DoctorSala(d) = n /\ doctores[n][d]}
CamasDisponibles(n) == {c \in Camas : CamaSala(c) = n /\ ~camas[n][c].ocupada}
Min(S) == CHOOSE x \in S : \A y \in S : x <= y

InitStore ==
  /\ doctores = [n \in Nodos |-> [d \in Doctores |-> TRUE]]
  /\ camas = [n \in Nodos |-> [c \in Camas |-> [ocupada |-> FALSE, id_paciente |-> Nulo]]]
  /\ visitas = [n \in Nodos |-> <<>>]
  /\ consecutivos = [n \in Nodos |-> [k \in Salas \X Dias |-> 0]]
  /\ hoy = 1
  /\ consola = [n \in Nodos |-> Libre]
  /\ red = [n \in Nodos |-> {}]
  /\ handlers = [n \in Nodos |-> EmptyBag]
  /\ emitidos = {}
  /\ devueltos = [n \in Nodos |-> [s \in Salas |-> 0]]
  /\ resp = RespBase


\* Variant: the changes of the session stay when the commit fails.
rollback_ausente(antes, sesion) == sesion

\* db.session.rollback() in the except branch: doctor.disponible,
\* cama.ocupada and the flushed row of CONSECUTIVOS, changed in the session
\* before the commit, are as before.
rollback(antes, sesion) == antes

(***************************************************************************)
(* The commit shared by the leader paths: insert the visit (folio minted   *)
(* by before_insert), mark the doctor and the bed, replicate.  A duplicate *)
(* folio raises IntegrityError and the transaction is rolled back.         *)
(***************************************************************************)
CommitLider(n, p, d, c, s, via) ==
  LET v == NuevaVisita(n, p, d, c, s)
      k == get_next_consecutivo(n, s)
      r == [RespBase EXCEPT !.op = "create", !.via = via, !.nodo = n,
              !.seq = k, !.seqAnt = devueltos[n][s],
              !.libre = (doctores[n][d] /\ ~camas[n][c].ocupada)]
  IN /\ devueltos' = [devueltos EXCEPT ![n][s] = k]
     /\ IF FolioUnico(n, v.folio)
        THEN /\ visitas' = [visitas EXCEPT ![n] = Append(@, v)]
             /\ doctores' = OcuparDoctor(n, d)
             /\ camas' = OcuparCama(n, c, p)
             /\ consecutivos' = ConsecutivosTras(n, s)
             /\ red' = Replicar(n, v)
             /\ emitidos' = emitidos \cup {<<n, v.folio>>}
             /\ resp' = [r EXCEPT !.ok = TRUE, !.folio = v.folio,
                           !.visita = Len(visitas[n]) + 1, !.cambio = TRUE]
        ELSE /\ resp' = [r EXCEPT !.error = "500"]
             /\ doctores' = rollback(doctores, OcuparDoctor(n, d))
             /\ camas' = rollback(camas, OcuparCama(n, c, p))
             /\ consecutivos' = rollback(consecutivos, ConsecutivosTras(n, s))
             /\ UNCHANGED <<visitas, red, emitidos>>

(***************************************************************************)
(* POST /api/cluster/create-visit (create_visit_distributed), handled by   *)
(* the node the callers resolve as leader (the election engine may name   *)
(* any node at any moment; the handler itself never asks).  It runs in the *)
(* mutex visit_creation_lock, so two requests of this endpoint never       *)
(* overlap: the validation and the commit of one request are one step.     *)
(***************************************************************************)
ValidarCreateVisit(n, p, d, c, t) ==
  IF Falta \in {p, d, c, t} THEN "400"
  ELSE IF d = NoExiste THEN "404"
  ELSE IF ~doctores[n][d] THEN "409"
  ELSE IF c = NoExiste THEN "404"
  ELSE IF camas[n][c].ocupada THEN "409"
  ELSE IF p = NoExiste THEN "404"
  ELSE IF t = NoExiste THEN "404"
  ELSE "ok"

create_visit_distributed(n, p, d, c, t, s) ==
  /\ Cardinality(emitidos) < MaxVisitas
  /\ LET v == ValidarCreateVisit(n, p, d, c, t) IN
       IF v = "ok"
       THEN CommitLider(n, p, d, c, s, "endpoint")
       ELSE /\ resp' = [RespBase EXCEPT !.op = "create", !.via = "endpoint", !.error = v]
            /\ UNCHANGED <<doctores, camas, visitas, consecutivos, red, emitidos,
                           devueltos>>
  /\ UNCHANGED <<hoy, consola, handlers>>
  /\ UNCHANGED fueraDeStore

(***************************************************************************)
(* console/actions.py create_visit, the path taken when is_leader() says   *)
(* yes.  The doctor and the bed are picked from the lists of the free ones *)
(* of this sala; the commit comes after the confirmation prompt and reads  *)
(* nothing again.  (The other path posts to create_visit_distributed.)     *)
(***************************************************************************)
create_visit_select(n, p, d, c) ==
  /\ consola[n] = Libre
  /\ d \in DoctoresDisponibles(n)
  /\ c \in CamasDisponibles(n)
  /\ consola' = [consola EXCEPT ![n] = <<[p |-> p, d |-> d, c |-> c, s |-> n]>>]
  /\ UNCHANGED <<doctores, camas, visitas, consecutivos, hoy,
                 red, handlers, emitidos, devueltos, resp>>
  /\ UNCHANGED fueraDeStore

create_visit_cancel(n) ==
  /\ consola[n] # Libre
  /\ consola' = [consola EXCEPT ![n] = Libre]
  /\ UNCHANGED <<doctores, camas, visitas, consecutivos, hoy,
                 red, handlers, emitidos, devueltos, resp>>
  /\ UNCHANGED fueraDeStore

create_visit_commit(n) ==
  /\ consola[n] # Libre
  /\ Cardinality(emitidos) < MaxVisitas
  /\ LET q == consola[n][1] IN CommitLider(n, q.p, q.d, q.c, q.s, "console")
  /\ consola' = [consola EXCEPT ![n] = Libre]
  /\ UNCHANGED <<hoy, handlers>>
  /\ UNCHANGED fueraDeStore

(***************************************************************************)
(* textual_app/screens: _create_visit_in_db of SimpleCreateVisitScreen     *)
(* (first free doctor and bed of the sala) and of CreateVisitWizard (the   *)
(* doctor and bed of the form).  Both insert the visit on the local node   *)
(* and touch neither DOCTORES nor CAMAS, and neither replicates.           *)
(***************************************************************************)
CommitTui(n, p, d, c) ==
  LET v == NuevaVisita(n, p, d, c, n)
      k == get_next_consecutivo(n, n)
      r == [RespBase EXCEPT !.op = "create", !.via = "tui", !.nodo = n,
              !.seq = k, !.seqAnt = devueltos[n][n],
              !.libre = (doctores[n][d] /\ ~camas[n][c].ocupada)]
  IN /\ devueltos' = [devueltos EXCEPT ![n][n] = k]
     /\ IF FolioUnico(n, v.folio)
        THEN /\ visitas' = [visitas EXCEPT ![n] = Append(@, v)]
             /\ consecutivos' = ConsecutivosTras(n, n)
             /\ emitidos' = emitidos \cup {<<n, v.folio>>}
             /\ resp' = [r EXCEPT !.ok = TRUE, !.folio = v.folio,
                           !.visita = Len(visitas[n]) + 1, !.cambio = TRUE]
        ELSE /\ resp' = [RespBase EXCEPT !.op = "create", !.via = "tui", !.error = "500"]
             /\ UNCHANGED <<visitas, consecutivos, emitidos>>
     /\ UNCHANGED <<doctores, camas, red>>

simple_create_visit_in_db(n, p) ==
  /\ Cardinality(emitidos) < MaxVisitas
  /\ IF DoctoresDisponibles(n) = {} \/ CamasDisponibles(n) = {}
     THEN /\ resp' = [RespBase EXCEPT !.op = "create", !.via = "tui",
                        !.error = "sin_recursos"]
          /\ UNCHANGED <<doctores, camas, visitas, consecutivos, red, emitidos, devueltos>>
     ELSE CommitTui(n, p, Min(DoctoresDisponibles(n)), Min(CamasDisponibles(n)))
  /\ UNCHANGED <<hoy, consola, handlers>>
  /\ UNCHANGED fueraDeStore

wizard_create_visit_in_db(n, p, d, c) ==
  /\ Cardinality(emitidos) < MaxVisitas
  /\ d \in DoctoresDisponibles(n)
  /\ c \in CamasDisponibles(n)
  /\ CommitTui(n, p, d, c)
  /\ UNCHANGED <<hoy, consola, handlers>>
  /\ UNCHANGED fueraDeStore


(***************************************************************************)
(* POST /api/cluster/replicate-visit (replicate_visit).  The folio lookup  *)
(* and the commit are two steps of one request thread; requests for the    *)
(* same payload may overlap.  A payload that was posted can be delivered   *)
(* any number of times.                                                    *)
(***************************************************************************)
\* Variant: the folio lookup finds nothing.
existing_visit_sin_busqueda(n, f) == FALSE

\* VisitaEmergencia.query.filter_by(folio=...).first()
existing_visit(n, f) == \E i \in DOMAIN visitas[n] : visitas[n][i].folio = f

replicate_visit_recv(n, data) ==
  /\ data \in red[n]
  /\ LET tenia == \E i \in DOMAIN visitas[n] : visitas[n][i].folio = data.folio IN
       IF existing_visit(n, data.folio)
       THEN /\ resp' = [RespBase EXCEPT !.op = "replicate", !.nodo = n, !.ok = TRUE,
                          !.folio = data.folio, !.tenia = tenia]
            /\ UNCHANGED handlers
       ELSE /\ BagCardinality(handlers[n]) < MaxHandlers
            /\ handlers' = [handlers EXCEPT ![n] =
                              @ (+) SetToBag({[data |-> data, tenia |-> tenia]})]
            /\ UNCHANGED resp
  /\ UNCHANGED <<doctores, camas, visitas, consecutivos, hoy,
                 consola, red, emitidos, devueltos>>
  /\ UNCHANGED fueraDeStore

\* The visit row the receiver builds from the payload (folio of the leader).
VisitaReplicada(data) ==
  [folio |-> data.folio, id_paciente |-> data.id_paciente, id_doctor |-> data.id_doctor,
   id_cama |-> data.id_cama, id_sala |-> data.id_sala, estado |-> data.estado,
   diagnostico |-> data.diagnostico, fecha_cierre |-> data.fecha_cierre]

\* if doctor: doctor.disponible = False
ReplicaDoctores(n, data) ==
  IF data.id_doctor \in Doctores THEN OcuparDoctor(n, data.id_doctor) ELSE doctores

\* Variant: the receiver leaves CAMAS alone.
ReplicaCamas_sin_marcar(n, data) == camas

\* if cama: cama.ocupada = True; cama.id_paciente = data['id_paciente']
ReplicaCamas(n, data) ==
  IF data.id_cama \in Camas THEN OcuparCama(n, data.id_cama, data.id_paciente) ELSE camas

replicate_visit_commit(n, h) ==
  /\ BagIn(h, handlers[n])
  /\ LET data == h.data
         r == [RespBase EXCEPT !.op = "replicate", !.nodo = n, !.folio = data.folio,
                 !.tenia = h.tenia,
                 !.libre = (doctores[n][data.id_doctor] /\ ~camas[n][data.id_cama].ocupada)]
     IN IF FolioUnico(n, data.folio)
        THEN /\ visitas' = [visitas EXCEPT ![n] = Append(@, VisitaReplicada(data))]
             /\ doctores' = ReplicaDoctores(n, data)
             /\ camas' = ReplicaCamas(n, data)
             /\ resp' = [r EXCEPT !.ok = TRUE, !.visita = Len(visitas[n]) + 1,
                           !.cambio = TRUE]
        ELSE /\ resp' = [r EXCEPT !.error = "500"]
             /\ UNCHANGED <<visitas, doctores, camas>>
  /\ handlers' = [handlers EXCEPT ![n] = @ (-) SetToBag({h})]
  /\ UNCHANGED <<consecutivos, hoy, consola, red,
                 emitidos, devueltos>>
  /\ UNCHANGED fueraDeStore

(***************************************************************************)
(* console/actions.py assign_doctor_to_patient.  es_lider is what          *)
(* bully_manager.is_leader() answers.  A console action that gives up      *)
(* prints a message and returns: nothing is written, the step is not taken.*)
(***************************************************************************)
VisitasActivas(n) == {i \in DOMAIN visitas[n] : visitas[n][i].estado = "activa"}

\* The early returns of the action: not the leader, no active visit, a visit
\* or a doctor that is not found, a busy doctor the user does not confirm.
PuedeAsignar(n, es_lider, i, d, confirmar) ==
  /\ es_lider
  /\ i \in VisitasActivas(n)
  /\ d \in Doctores
  /\ doctores[n][d] \/ confirmar

\* free the old doctor if it is another one, then doctor.disponible = False
AsignarDoctores(n, viejo, d) ==
  [doctores EXCEPT ![n] = [x \in Doctores |->
     IF x = d THEN FALSE ELSE IF x = viejo THEN TRUE ELSE doctores[n][x]]]

assign_doctor_to_patient(n, es_lider, i, d, confirmar) ==
  /\ PuedeAsignar(n, es_lider, i, d, confirmar)
  /\ doctores' = AsignarDoctores(n, visitas[n][i].id_doctor, d)
  /\ visitas' = [visitas EXCEPT ![n][i] =
                   [@ EXCEPT !.id_doctor = d, !.estado = "En Consulta"]]
  /\ resp' = [RespBase EXCEPT !.op = "assign", !.ok = TRUE, !.nodo = n,
                 !.visita = i, !.cambio = TRUE]
  /\ UNCHANGED <<camas, consecutivos, hoy, consola, red,
                 handlers, emitidos, devueltos>>
  /\ UNCHANGED fueraDeStore

(***************************************************************************)
(* console/actions.py close_visit.  The user picks among the active visits *)
(* whose id_doctor is user.id_relacionado; i is the visit the user means.  *)
(***************************************************************************)
MisVisitasActivas(n, idrel) ==
  {i \in DOMAIN visitas[n] :
     visitas[n][i].id_doctor = idrel /\ visitas[n][i].estado = "activa"}

\* The early returns of the action: a user who is not a doctor, no active
\* visit of this doctor, a choice outside that list, an empty diagnosis.
PuedeCerrar(n, rol, idrel, i, diag) ==
  /\ rol = "doctor"
  /\ i \in MisVisitasActivas(n, idrel)
  /\ diag # Nulo

\* visita.diagnostico, estado, fecha_cierre
CerrarVisita(v, diag) ==
  [v EXCEPT !.diagnostico = diag, !.estado = "completada", !.fecha_cierre = Ahora]

\* visita.doctor.disponible = True
LiberarDoctor(n, d) == [doctores EXCEPT ![n][d] = TRUE]

\* visita.cama.ocupada = False; visita.cama.id_paciente = None
LiberarCama(n, c) == [camas EXCEPT ![n][c] = [ocupada |-> FALSE, id_paciente |-> Nulo]]

close_visit(n, rol, idrel, i, diag) ==
  /\ PuedeCerrar(n, rol, idrel, i, diag)
  /\ visitas' = [visitas EXCEPT ![n][i] = CerrarVisita(@, diag)]
  /\ doctores' = LiberarDoctor(n, visitas[n][i].id_doctor)
  /\ camas' = LiberarCama(n, visitas[n][i].id_cama)
  /\ resp' = [RespBase EXCEPT !.op = "close", !.ok = TRUE, !.nodo = n, !.visita = i,
                 !.folio = visitas[n][i].folio, !.cambio = TRUE,
                 !.autorizado = /\ rol = "doctor"
                                /\ visitas[n][i].estado = "activa"
                                /\ visitas[n][i].id_doctor = idrel]
  /\ UNCHANGED <<consecutivos, hoy, consola, red,
                 handlers, emitidos, devueltos>>
  /\ UNCHANGED fueraDeStore

(***************************************************************************)
(* The environment: the date changes.                                      *)
(***************************************************************************)
Medianoche ==
  /\ hoy < MaxDias
  /\ hoy' = hoy + 1
  /\ UNCHANGED <<doctores, camas, visitas, consecutivos, consola, red, handlers,
                 emitidos, devueltos, resp>>
  /\ UNCHANGED fueraDeStore

Roles == {"doctor", "trabajador_social"}

\* The requests a client can post to create_visit_distributed: the well-formed
\* ones, one with an unknown key for each of the four lookups, and one with a
\* required field missing.
PeticionesCrear ==
  [p : Pacientes, d : Doctores, c : Camas, t : {1}]
    \cup {[p |-> NoExiste, d |-> Min(Doctores), c |-> Min(Camas), t |-> 1],
          [p |-> Min(Pacientes), d |-> NoExiste, c |-> Min(Camas), t |-> 1],
          [p |-> Min(Pacientes), d |-> Min(Doctores), c |-> NoExiste, t |-> 1],
          [p |-> Min(Pacientes), d |-> Min(Doctores), c |-> Min(Camas), t |-> NoExiste],
          [p |-> Min(Pacientes), d |-> Min(Doctores), c |-> Min(Camas), t |-> Falta]}

NextStore ==
  \/ \E n \in Nodos, q \in PeticionesCrear, s \in Salas :
       create_visit_distributed(n, q.p, q.d, q.c, q.t, s)
  \/ \E n \in Nodos, p \in Pacientes, d \in Doctores, c \in Camas :
       create_visit_select(n, p, d, c)
  \/ \E n \in Nodos : create_visit_cancel(n)
  \/ \E n \in Nodos : create_visit_commit(n)
  \/ \E n \in Nodos, p \in Pacientes : simple_create_visit_in_db(n, p)
  \/ \E n \in Nodos, p \in Pacientes, d \in Doctores, c \in Camas :
       wizard_create_visit_in_db(n, p, d, c)
  \/ \E n \in Nodos : \E data \in red[n] : replicate_visit_recv(n, data)
  \/ \E n \in Nodos : \E h \in BagToSet(handlers[n]) : replicate_visit_commit(n, h)
  \/ \E n \in Nodos, es_lider \in BOOLEAN, i \in 0..MaxVisitas,
        d \in Doctores \cup {NoExiste}, confirmar \in BOOLEAN :
       assign_doctor_to_patient(n, es_lider, i, d, confirmar)
  \/ \E n \in Nodos, rol \in Roles, idrel \in Doctores, i \in 0..MaxVisitas,
        diag \in {Nulo, Diagnostico} : close_visit(n, rol, idrel, i, diag)
  \/ Medianoche


(***************************************************************************)
(* Properties of the store.                                                *)
(***************************************************************************)
ActivasConDoctor(n, d) ==
  {i \in DOMAIN visitas[n] :
     visitas[n][i].estado = "activa" /\ visitas[n][i].id_doctor = d}

ActivasConCama(n, c) ==
  {i \in DOMAIN visitas[n] :
     visitas[n][i].estado = "activa" /\ visitas[n][i].id_cama = c}

\* C2: on every node, a doctor is unavailable exactly when one active visit
\* references it, and a bed is occupied exactly when one active visit
\* references it.
C2_RecursosSegunVisitas ==
  \A n \in Nodos :
    /\ \A d \in Doctores :
         (~doctores[n][d]) <=> (Cardinality(ActivasConDoctor(n, d)) = 1)
    /\ \A c \in Camas :
         camas[n][c].ocupada <=> (Cardinality(ActivasConCama(n, c)) = 1)

\* C3: a folio is minted once in the whole cluster: no two creations, on
\* whichever nodes, produce the same folio.
C3_FolioUnicoEnCluster ==
  \A a \in emitidos : \A b \in emitidos : (a[2] = b[2]) => (a[1] = b[1])

\* C5: a creation that commits through the endpoint or the leader console
\* found its doctor and its bed free at the commit, so of the requests for
\* one free doctor or bed a single one commits.
C5_UnSoloCommit ==
  (resp.op = "create" /\ resp.ok /\ resp.via \in {"endpoint", "console"})
    => resp.libre

\* C6: replicate-visit is idempotent: a node never holds two rows of one
\* folio, a delivery whose folio the node already holds is answered as a
\* success, and the step that answers it changes no visit, doctor or bed row.
C6_ReplicaIdempotente ==
  /\ [](\A n \in Nodos : \A i \in DOMAIN visitas[n] : \A j \in DOMAIN visitas[n] :
          (visitas[n][i].folio = visitas[n][j].folio) => (i = j))
  /\ []((resp.op = "replicate" /\ resp.tenia) => (resp.ok /\ ~resp.cambio))
  /\ [][(resp'.op = "replicate" /\ resp'.tenia)
          => (visitas' = visitas /\ doctores' = doctores /\ camas' = camas)]_vars

\* A delivery for a folio the node holds has been acknowledged.
C6_Witness ==
  /\ resp.op = "replicate" /\ resp.tenia /\ resp.ok
  /\ \E i \in DOMAIN visitas[resp.nodo] : visitas[resp.nodo][i].folio = resp.folio

\* C7: right after a creation commits through the endpoint or the leader
\* console, and right after a follower inserts a replicated visit, the
\* visit's doctor is unavailable and its bed is occupied by its patient on
\* that node.
C7_RecursosTrasCrear ==
  (/\ resp.ok /\ resp.cambio
   /\ \/ resp.op = "create" /\ resp.via \in {"endpoint", "console"}
      \/ resp.op = "replicate")
    => LET v == visitas[resp.nodo][resp.visita]
       IN /\ v.folio = resp.folio
          /\ ~doctores[resp.nodo][v.id_doctor]
          /\ camas[resp.nodo][v.id_cama] =
               [ocupada |-> TRUE, id_paciente |-> v.id_paciente]

\* A follower has inserted a replicated visit whose doctor or bed was not
\* free there: the insert asked nothing about availability.
C7_Witness ==
  /\ resp.op = "replicate" /\ resp.ok /\ resp.cambio /\ ~resp.libre
  /\ ~doctores[resp.nodo][visitas[resp.nodo][resp.visita].id_doctor]

\* C10: every value get_next_consecutivo returns for a sala is greater than
\* the value it returned before for that sala.
C10_ConsecutivoCreciente ==
  (resp.op = "create" /\ resp.seq > 0) => (resp.seq > resp.seqAnt)


(***************************************************************************)
(*                                                                         *)
(* "Primer entregable.py": every node runs the same program, a console     *)
(* user and a socket server over one sqlite store, and knows the others as *)
(* NODOS_REMOTOS.                                                          *)
(*                                                                         *)
(***************************************************************************)
\* SERVER_PORT, which the program also writes as sala_id.
SERVER_PORT == 5555
\* max_intentos of generar_folio_exacto.
max_intentos == 5
\* int(datetime.now().timestamp()) of the contingency folio.
timestamp == 1700000000
\* Cap on ultimo_consecutivo.
MaxConsecutivo == 5

Claves == ({"DOCTOR"} \X Doctores) \cup ({"CAMA"} \X Camas)
\* The doctor accounts that can log in: one per doctor, and one more.
CuentasDoctor == 1..(NumDoctores + 1)

NODOS_REMOTOS(n) == Nodos \ {n}

EnMenu == [pc |-> "menu", p |-> 0, d |-> 0, c |-> 0, pend |-> {}]

LRespBase ==
  [op |-> "none", nodo |-> 0, ok |-> FALSE, folio |-> <<>>, autorizado |-> FALSE]

InitLegacy ==
  /\ bloqueos_locales = [n \in Nodos |-> {}]
  /\ DOCTORES = [n \in Nodos |-> [d \in Doctores |-> TRUE]]
  /\ CAMAS_ATENCION =
       [n \in Nodos |-> [c \in Camas |-> [ocupada |-> FALSE, paciente_id |-> Nulo]]]
  /\ VISITAS_EMERGENCIA = [n \in Nodos |-> <<>>]
  /\ CONSECUTIVOS_VISITAS = [n \in Nodos |-> 0]
  /\ proc = [n \in Nodos |-> EnMenu]
  /\ liberaciones = {}
  /\ concedidos = [n \in Nodos |-> {}]
  /\ lresp = LRespBase

\* verificar_recurso_local: the resource is free in the local store.
verificar_recurso_local(n, k) ==
  IF k[1] = "DOCTOR" THEN DOCTORES[n][k[2]] ELSE ~CAMAS_ATENCION[n][k[2]].ocupada

\* umbral_consenso over total_nodos = len(NODOS_REMOTOS).
umbral_consenso == ((NumNodos - 1) \div 2) + 1

\* liberar_bloqueo_distribuido: the local entries go, one LIBERAR_BLOQUEO per
\* key is sent to every remote node (no answer is awaited).
BloqueosTrasLiberar(n, K) == [bloqueos_locales EXCEPT ![n] = @ \ K]
LiberacionesTras(n, K) == liberaciones \cup (NODOS_REMOTOS(n) \X K)
ConcedidosTrasLiberar(n, K) == [concedidos EXCEPT ![n] = @ \ K]


(***************************************************************************)
(* asignar_doctor_y_cama: the user names a patient, a doctor and a bed;    *)
(* solicitar_bloqueo_distribuido("DOCTOR") starts with the local           *)
(* verification and gives up at once when the doctor is not free.          *)
(***************************************************************************)
asignar_doctor_y_cama(n, p, d, c) ==
  /\ proc[n].pc = "menu"
  /\ \A m \in Nodos : Len(VISITAS_EMERGENCIA[m]) < MaxVisitas
  /\ verificar_recurso_local(n, <<"DOCTOR", d>>)
  /\ proc' = [proc EXCEPT ![n] =
                [pc |-> "pedir_doctor", p |-> p, d |-> d, c |-> c,
                 pend |-> NODOS_REMOTOS(n)]]
  /\ UNCHANGED <<bloqueos_locales, DOCTORES, CAMAS_ATENCION, VISITAS_EMERGENCIA,
                 CONSECUTIVOS_VISITAS, liberaciones, concedidos, lresp>>
  /\ UNCHANGED fueraDeLegacy

\* The key solicitar_bloqueo_distribuido is asking for.
ClaveEnCurso(n) ==
  IF proc[n].pc = "pedir_doctor" THEN <<"DOCTOR", proc[n].d>> ELSE <<"CAMA", proc[n].c>>

\* handle_client, SOLICITAR_BLOQUEO_ATOMICO: refuse a key that is in the local
\* table or whose resource is not free here; otherwise record it and approve.
BloqueoAprobado(m, k) == k \notin bloqueos_locales[m] /\ verificar_recurso_local(m, k)

(***************************************************************************)
(* One round trip of the loop over NODOS_REMOTOS: node n asks the next     *)
(* node m.  A refusal ends solicitar_bloqueo_distribuido with False: the   *)
(* entries already recorded by the nodes asked before stay where they are, *)
(* and asignar_doctor_y_cama releases the doctor if it was the bed.        *)
(***************************************************************************)
SOLICITAR_BLOQUEO_ATOMICO(n, m) ==
  /\ proc[n].pc \in {"pedir_doctor", "pedir_cama"}
  /\ proc[n].pend # {}
  /\ m = Min(proc[n].pend)
  /\ LET k == ClaveEnCurso(n) IN
       IF BloqueoAprobado(m, k)
       THEN /\ bloqueos_locales' = [bloqueos_locales EXCEPT ![m] = @ \cup {k}]
            /\ proc' = [proc EXCEPT ![n].pend = @ \ {m}]
            /\ UNCHANGED <<liberaciones, concedidos>>
       ELSE IF proc[n].pc = "pedir_doctor"
            THEN /\ proc' = [proc EXCEPT ![n] = EnMenu]
                 /\ UNCHANGED <<bloqueos_locales, liberaciones, concedidos>>
            ELSE LET K == {<<"DOCTOR", proc[n].d>>} IN
                 /\ proc' = [proc EXCEPT ![n] = EnMenu]
                 /\ bloqueos_locales' = BloqueosTrasLiberar(n, K)
                 /\ liberaciones' = LiberacionesTras(n, K)
                 /\ concedidos' = ConcedidosTrasLiberar(n, K)
  /\ UNCHANGED <<DOCTORES, CAMAS_ATENCION, VISITAS_EMERGENCIA, CONSECUTIVOS_VISITAS,
                 lresp>>
  /\ UNCHANGED fueraDeLegacy

(***************************************************************************)
(* solicitar_bloqueo_distribuido, step 3: every remote node approved, the  *)
(* key goes into the local table and the call returns True.  For the       *)
(* doctor the bed follows, starting with its local verification.           *)
(***************************************************************************)
bloqueo_doctor_concedido(n) ==
  /\ proc[n].pc = "pedir_doctor"
  /\ proc[n].pend = {}
  /\ LET K == {<<"DOCTOR", proc[n].d>>} IN
       IF verificar_recurso_local(n, <<"CAMA", proc[n].c>>)
       THEN /\ bloqueos_locales' = [bloqueos_locales EXCEPT ![n] = @ \cup K]
            /\ concedidos' = [concedidos EXCEPT ![n] = @ \cup K]
            /\ proc' = [proc EXCEPT ![n].pc = "pedir_cama",
                                    ![n].pend = NODOS_REMOTOS(n)]
            /\ UNCHANGED liberaciones
       ELSE /\ bloqueos_locales' = BloqueosTrasLiberar(n, K)
            /\ liberaciones' = LiberacionesTras(n, K)
            /\ concedidos' = ConcedidosTrasLiberar(n, K)
            /\ proc' = [proc EXCEPT ![n] = EnMenu]
  /\ UNCHANGED <<DOCTORES, CAMAS_ATENCION, VISITAS_EMERGENCIA, CONSECUTIVOS_VISITAS,
                 lresp>>
  /\ UNCHANGED fueraDeLegacy

bloqueo_cama_concedido(n) ==
  /\ proc[n].pc = "pedir_cama"
  /\ proc[n].pend = {}
  /\ LET K == {<<"CAMA", proc[n].c>>} IN
       /\ bloqueos_locales' = [bloqueos_locales EXCEPT ![n] = @ \cup K]
       /\ concedidos' = [concedidos EXCEPT ![n] = @ \cup K]
  /\ proc' = [proc EXCEPT ![n].pc = "ejecutar"]
  /\ UNCHANGED <<DOCTORES, CAMAS_ATENCION, VISITAS_EMERGENCIA, CONSECUTIVOS_VISITAS,
                 liberaciones, lresp>>
  /\ UNCHANGED fueraDeLegacy

\* handle_client, LIBERAR_BLOQUEO: the entry goes, whoever recorded it.
LIBERAR_BLOQUEO(m, k) ==
  /\ <<m, k>> \in liberaciones
  /\ bloqueos_locales' = [bloqueos_locales EXCEPT ![m] = @ \ {k}]
  /\ liberaciones' = liberaciones \ {<<m, k>>}
  /\ UNCHANGED <<DOCTORES, CAMAS_ATENCION, VISITAS_EMERGENCIA, CONSECUTIVOS_VISITAS,
                 proc, concedidos, lresp>>
  /\ UNCHANGED fueraDeLegacy


(***************************************************************************)
(* Folios of this program: f"{paciente_id}{doctor_id}{sala_id}{consecutivo}"*)
(* with nothing between the numbers, so the text is the concatenation of   *)
(* their digits.                                                           *)
(***************************************************************************)
FolioExacto(p, d, k) == Digitos(p) \o Digitos(d) \o Digitos(SERVER_PORT) \o Digitos(k)

\* SELECT COUNT(*) FROM VISITAS_EMERGENCIA WHERE folio = ?
ExisteFolio(n, f) ==
  \E i \in DOMAIN VISITAS_EMERGENCIA[n] : VISITAS_EMERGENCIA[n][i].folio = f

\* The first row of a folio (cursor.fetchone()).
FilaDeFolio(n, f) ==
  VISITAS_EMERGENCIA[n][Min({i \in DOMAIN VISITAS_EMERGENCIA[n] :
                                VISITAS_EMERGENCIA[n][i].folio = f})]

\* obtener_siguiente_consecutivo on the counters cont: without a row, the row
\* is created at 1; with one, it is advanced, INCREMENTAR_CONSECUTIVO makes
\* every remote node advance its own, and on consensus the local row is
\* advanced once more by ejecutar_transaccion_local.  It returns cont[n] + 1.
obtener_siguiente_consecutivo(cont, n) ==
  IF cont[n] = 0 THEN [cont EXCEPT ![n] = 1]
  ELSE [m \in Nodos |->
          IF m # n THEN cont[m] + 1
          ELSE IF NumNodos - 1 >= umbral_consenso THEN cont[m] + 2 ELSE cont[m] + 1]

\* generar_folio_exacto: up to max_intentos draws, then the contingency folio.
RECURSIVE generar_folio_exacto(_, _, _, _, _)
generar_folio_exacto(n, p, d, cont, intento) ==
  IF intento = max_intentos
  THEN [folio |-> Digitos(p) \o Digitos(d) \o Digitos(SERVER_PORT) \o Digitos(timestamp),
        cont |-> cont]
  ELSE LET f == FolioExacto(p, d, cont[n] + 1)
           sig == obtener_siguiente_consecutivo(cont, n)
       IN IF ~ExisteFolio(n, f) THEN [folio |-> f, cont |-> sig]
          ELSE generar_folio_exacto(n, p, d, sig, intento + 1)

\* propagar_transaccion_con_consenso: the remote nodes run the command first,
\* each on its own store; the sender runs it when enough of them said
\* CONSENSO_OK.  Given the remote nodes that accept and whether the local run
\* would succeed, the nodes whose store changes:
NodosQueAplican(n, aceptan, localOk) ==
  aceptan \cup (IF Cardinality(aceptan) >= umbral_consenso /\ localOk THEN {n} ELSE {})

\* ejecutar_transaccion_local, ASIGNAR_RECURSOS, on the nodes of A.
DoctoresTrasAsignar(A, d) ==
  [m \in Nodos |-> IF m \in A THEN [DOCTORES[m] EXCEPT ![d] = FALSE] ELSE DOCTORES[m]]
CamasTrasAsignar(A, c, p) ==
  [m \in Nodos |->
     IF m \in A THEN [CAMAS_ATENCION[m] EXCEPT ![c] = [ocupada |-> TRUE, paciente_id |-> p]]
     ELSE CAMAS_ATENCION[m]]
VisitasTrasAsignar(A, f, p, d, c) ==
  [m \in Nodos |->
     IF m \in A
     THEN Append(VISITAS_EMERGENCIA[m],
                 [folio |-> f, paciente_id |-> p, doctor_id |-> d, cama_id |-> c,
                  sala_id |-> SERVER_PORT, estado |-> "En tratamiento",
                  \* what no statement of the program ever writes stays NULL
                  diagnostico |-> Nulo, fecha_cierre |-> Nulo])
     ELSE VISITAS_EMERGENCIA[m]]

(***************************************************************************)
(* asignar_doctor_y_cama from the final verification on: the folio, the    *)
(* ASIGNAR_RECURSOS transaction, the release of both keys.                 *)
(***************************************************************************)
ejecutar_asignacion(n) ==
  /\ proc[n].pc = "ejecutar"
  /\ CONSECUTIVOS_VISITAS[n] < MaxConsecutivo
  /\ LET p == proc[n].p
         d == proc[n].d
         c == proc[n].c
         K == {<<"DOCTOR", d>>, <<"CAMA", c>>}
     IN /\ IF ~DOCTORES[n][d] \/ CAMAS_ATENCION[n][c].ocupada
           THEN UNCHANGED <<DOCTORES, CAMAS_ATENCION, VISITAS_EMERGENCIA,
                            CONSECUTIVOS_VISITAS, lresp>>
           ELSE LET g == generar_folio_exacto(n, p, d, CONSECUTIVOS_VISITAS, 0)
                    aceptan == {m \in NODOS_REMOTOS(n) : ~ExisteFolio(m, g.folio)}
                    A == NodosQueAplican(n, aceptan, ~ExisteFolio(n, g.folio))
                IN /\ CONSECUTIVOS_VISITAS' = g.cont
                   /\ DOCTORES' = DoctoresTrasAsignar(A, d)
                   /\ CAMAS_ATENCION' = CamasTrasAsignar(A, c, p)
                   /\ VISITAS_EMERGENCIA' = VisitasTrasAsignar(A, g.folio, p, d, c)
                   /\ lresp' = [LRespBase EXCEPT !.op = "asignar", !.nodo = n,
                                  !.ok = (n \in A), !.folio = g.folio]
        /\ bloqueos_locales' = BloqueosTrasLiberar(n, K)
        /\ liberaciones' = LiberacionesTras(n, K)
        /\ concedidos' = ConcedidosTrasLiberar(n, K)
  /\ proc' = [proc EXCEPT ![n] = EnMenu]
  /\ UNCHANGED fueraDeLegacy

\* ejecutar_transaccion_local, CERRAR_VISITA, on the nodes of A: the doctor and
\* the bed of the row are freed and the rows of the folio become 'Cerrada'.
DoctoresTrasCerrar(A, f) ==
  [m \in Nodos |->
     IF m \in A THEN [DOCTORES[m] EXCEPT ![FilaDeFolio(m, f).doctor_id] = TRUE]
     ELSE DOCTORES[m]]
CamasTrasCerrar(A, f) ==
  [m \in Nodos |->
     IF m \in A
     THEN [CAMAS_ATENCION[m] EXCEPT ![FilaDeFolio(m, f).cama_id] =
             [ocupada |-> FALSE, paciente_id |-> Nulo]]
     ELSE CAMAS_ATENCION[m]]
VisitasTrasCerrar(A, f) ==
  [m \in Nodos |->
     IF m \in A
     THEN [i \in DOMAIN VISITAS_EMERGENCIA[m] |->
             IF VISITAS_EMERGENCIA[m][i].folio = f
             THEN [VISITAS_EMERGENCIA[m][i] EXCEPT !.estado = "Cerrada"]
             ELSE VISITAS_EMERGENCIA[m][i]]
     ELSE VISITAS_EMERGENCIA[m]]

(***************************************************************************)
(* cerrar_visita, option 2 of menu_doctor: usuario is the doctor account   *)
(* logged in at node n, f the folio typed.  The function returns early for *)
(* a folio without a row here and for a row that is 'Cerrada'.             *)
(***************************************************************************)
cerrar_visita(n, usuario, f) ==
  /\ proc[n].pc = "menu"
  /\ ExisteFolio(n, f)
  /\ FilaDeFolio(n, f).estado # "Cerrada"
  /\ LET aceptan == {m \in NODOS_REMOTOS(n) : ExisteFolio(m, f)}
         A == NodosQueAplican(n, aceptan, TRUE)
     IN /\ DOCTORES' = DoctoresTrasCerrar(A, f)
        /\ CAMAS_ATENCION' = CamasTrasCerrar(A, f)
        /\ VISITAS_EMERGENCIA' = VisitasTrasCerrar(A, f)
        /\ lresp' = [LRespBase EXCEPT !.op = "cerrar", !.nodo = n, !.ok = (n \in A),
                       !.folio = f,
                       !.autorizado = (FilaDeFolio(n, f).doctor_id = usuario)]
  /\ UNCHANGED <<bloqueos_locales, CONSECUTIVOS_VISITAS, proc, liberaciones, concedidos>>
  /\ UNCHANGED fueraDeLegacy

\* The folios a user can type: those of the rows of any node.
FoliosConocidos ==
  UNION {{VISITAS_EMERGENCIA[m][i].folio : i \in DOMAIN VISITAS_EMERGENCIA[m]} :
           m \in Nodos}

NextLegacy ==
  \/ \E n \in Nodos, p \in Pacientes, d \in Doctores, c \in Camas :
       asignar_doctor_y_cama(n, p, d, c)
  \/ \E n \in Nodos, m \in Nodos : SOLICITAR_BLOQUEO_ATOMICO(n, m)
  \/ \E n \in Nodos : bloqueo_doctor_concedido(n)
  \/ \E n \in Nodos : bloqueo_cama_concedido(n)
  \/ \E m \in Nodos, k \in Claves : LIBERAR_BLOQUEO(m, k)
  \/ \E n \in Nodos : ejecutar_asignacion(n)
  \/ \E n \in Nodos, usuario \in CuentasDoctor : \E f \in FoliosConocidos :
       cerrar_visita(n, usuario, f)


(***************************************************************************)
(* Properties of the lock table and of the closing of a visit.             *)
(***************************************************************************)
\* C1: a resource key is held by at most one node at a time: of the nodes
\* whose solicitar_bloqueo_distribuido returned True for the key and that
\* have not released it since, there is never more than one.
C1_ExclusionMutua ==
  \A k \in Claves : Cardinality({n \in Nodos : k \in concedidos[n]}) <= 1

\* C8: after a close commits on a node, the visit is completed ('Cerrada' is
\* this program's word for it) with its diagnosis and its closing time set,
\* and its doctor and its bed are free on that node.
C8_CierreCompleto ==
  (lresp.op = "cerrar" /\ lresp.ok)
    => LET v == FilaDeFolio(lresp.nodo, lresp.folio)
       IN /\ v.estado \in {"completada", "Cerrada"}
          /\ v.diagnostico # Nulo
          /\ v.fecha_cierre # Nulo
          /\ DOCTORES[lresp.nodo][v.doctor_id]
          /\ ~CAMAS_ATENCION[lresp.nodo][v.cama_id].ocupada

\* C9: a close succeeds only for the doctor of the visit: the account that
\* closes is the one whose id the visit carries as its doctor.
C9_SoloElDoctorDeLaVisita ==
  (lresp.op = "cerrar" /\ lresp.ok) => lresp.autorizado


(***************************************************************************)
(*                                                                         *)
(* The election engine, as section 4.4 designs it: Bully over node ids,    *)
(* with a Term per node that each election start advances.                 *)
(*                                                                         *)
(***************************************************************************)
\* Cap on current_term.
MaxTerm == 2
\* The nodes an election cluster can have; those of Nodos run from the start.
NumMiembros == 4
Miembros == 1..NumMiembros

Mayores(n) == {m \in Miembros : m > n}
Vivos == {m \in Miembros : vivo[m]}

ELECTION(t, de, para) == [tipo |-> "ELECTION", term |-> t, de |-> de, para |-> para]
OK(t, de, para) == [tipo |-> "OK", term |-> t, de |-> de, para |-> para]
COORDINATOR(t, lider, para) ==
  [tipo |-> "COORDINATOR", term |-> t, de |-> lider, para |-> para]

InitBully ==
  /\ state = [n \in Miembros |-> "FOLLOWER"]
  /\ current_term = [n \in Miembros |-> 0]
  /\ current_leader = [n \in Miembros |-> 0]
  /\ vivo = [n \in Miembros |-> n \in Nodos]
  /\ buzon = {}

\* Steps 1 and 2: advance the Term, send ELECTION to every peer of higher id
\* (a peer that is down cannot be reached and counts as absent).
MensajesDeEleccion(n) ==
  {ELECTION(current_term[n] + 1, n, m) : m \in Mayores(n) \cap Vivos}

\* An election starts at startup, when the leader is suspected lost, or when
\* a higher-id peer announces itself to a leader; the ElectionFlag keeps a
\* node from running two elections at once.
start_election(n) ==
  /\ vivo[n]
  /\ state[n] # "CANDIDATE"
  /\ current_term[n] < tope
  /\ current_term' = [current_term EXCEPT ![n] = @ + 1]
  /\ state' = [state EXCEPT ![n] = "CANDIDATE"]
  /\ buzon' = buzon \cup MensajesDeEleccion(n)
  /\ UNCHANGED <<current_leader, vivo>>
  /\ UNCHANGED fueraDeBully

\* On receipt of ELECTION(term, from=X) with self_id > X: reply OK, start an
\* election of one's own (unless one is running).
recv_ELECTION(msg) ==
  /\ msg \in buzon
  /\ msg.tipo = "ELECTION"
  /\ vivo[msg.para]
  /\ msg.para > msg.de
  /\ LET n == msg.para IN
       IF state[n] = "CANDIDATE"
       THEN /\ buzon' = (buzon \ {msg}) \cup {OK(msg.term, n, msg.de)}
            /\ UNCHANGED <<state, current_term>>
       ELSE /\ current_term[n] < tope
            /\ current_term' = [current_term EXCEPT ![n] = @ + 1]
            /\ state' = [state EXCEPT ![n] = "CANDIDATE"]
            /\ buzon' = ((buzon \ {msg}) \cup {OK(msg.term, n, msg.de)})
                          \cup MensajesDeEleccion(n)
  /\ UNCHANGED <<current_leader, vivo>>
  /\ UNCHANGED fueraDeBully

\* Step 3: an OK(term) for the election that is running arrives within the
\* reply window: FOLLOWER, LeaderRef cleared.  A late OK is dropped.
recv_OK(msg) ==
  /\ msg \in buzon
  /\ msg.tipo = "OK"
  /\ vivo[msg.para]
  /\ buzon' = buzon \ {msg}
  /\ IF state[msg.para] = "CANDIDATE" /\ msg.term = current_term[msg.para]
     THEN /\ state' = [state EXCEPT ![msg.para] = "FOLLOWER"]
          /\ current_leader' = [current_leader EXCEPT ![msg.para] = 0]
     ELSE UNCHANGED <<state, current_leader>>
  /\ UNCHANGED <<current_term, vivo>>
  /\ UNCHANGED fueraDeBully

\* Variant: COORDINATOR goes to the higher-id peers only.
todos_los_pares_mayores(n) == Mayores(n) \cap Vivos

\* "Send COORDINATOR(term, leader=self_id) to all peers": every peer that
\* can be reached.
todos_los_pares(n) == Vivos \ {n}

\* Step 4: no higher-id peer replied (none of this node's ELECTION messages
\* is unanswered, no OK is on its way): LEADER, COORDINATOR to all peers.
become_leader(n) ==
  /\ vivo[n]
  /\ state[n] = "CANDIDATE"
  /\ ~\E msg \in buzon : \/ msg.tipo = "ELECTION" /\ msg.de = n
                         \/ msg.tipo = "OK" /\ msg.para = n
  /\ state' = [state EXCEPT ![n] = "LEADER"]
  /\ current_leader' = [current_leader EXCEPT ![n] = n]
  /\ buzon' = buzon \cup {COORDINATOR(current_term[n], n, m) : m \in todos_los_pares(n)}
  /\ UNCHANGED <<current_term, vivo>>
  /\ UNCHANGED fueraDeBully

\* Variant: every COORDINATOR is adopted.
AdoptaCoordinator_siempre(msg) == TRUE

\* COORDINATOR(term, leader=L) with term >= current_term
AdoptaCoordinator(msg) == msg.term >= current_term[msg.para]

\* On receipt of COORDINATOR(term, leader=L) with term >= current_term: adopt
\* L, FOLLOWER, current_term updated; otherwise the message is ignored.
recv_COORDINATOR(msg) ==
  /\ msg \in buzon
  /\ msg.tipo = "COORDINATOR"
  /\ vivo[msg.para]
  /\ buzon' = buzon \ {msg}
  /\ IF AdoptaCoordinator(msg)
     THEN /\ current_leader' = [current_leader EXCEPT ![msg.para] = msg.de]
          /\ state' = [state EXCEPT ![msg.para] = "FOLLOWER"]
          /\ current_term' = [current_term EXCEPT ![msg.para] = msg.term]
     ELSE UNCHANGED <<current_leader, state, current_term>>
  /\ UNCHANGED vivo
  /\ UNCHANGED fueraDeBully

\* A node is killed: its process state is gone, messages to it are lost.
crash(n) ==
  /\ vivo[n]
  /\ vivo' = [vivo EXCEPT ![n] = FALSE]
  /\ state' = [state EXCEPT ![n] = "FOLLOWER"]
  /\ current_term' = [current_term EXCEPT ![n] = 0]
  /\ current_leader' = [current_leader EXCEPT ![n] = 0]
  /\ buzon' = {msg \in buzon : msg.para # n}
  /\ UNCHANGED fueraDeBully

\* A node (re)joins the cluster with a fresh process.
join(n) ==
  /\ ~vivo[n]
  /\ vivo' = [vivo EXCEPT ![n] = TRUE]
  /\ UNCHANGED <<state, current_term, current_leader, buzon>>
  /\ UNCHANGED fueraDeBully

NextBully ==
  \/ \E n \in Nodos : start_election(n)
  \/ \E msg \in buzon : recv_ELECTION(msg)
  \/ \E msg \in buzon : recv_OK(msg)
  \/ \E n \in Nodos : become_leader(n)
  \/ \E msg \in buzon : recv_COORDINATOR(msg)
  \/ \E n \in Nodos : crash(n)
  \/ \E n \in Nodos : join(n)

\* The Term of node n does not go down in a step.
TermNoBaja(n) == current_term'[n] >= current_term[n]

\* A node that becomes CANDIDATE has advanced its Term by one.
AvanzaAlElegir(n) ==
  (state[n] # "CANDIDATE" /\ state'[n] = "CANDIDATE")
    => current_term'[n] = current_term[n] + 1

\* A node takes another node as leader only from a COORDINATOR of that node
\* whose term is not below its own; it is then FOLLOWER at that term.
AdoptaSoloSiNoEsViejo(n) ==
  (vivo'[n] /\ current_leader'[n] \notin {current_leader[n], 0, n})
    => /\ COORDINATOR(current_term'[n], current_leader'[n], n) \in buzon
       /\ current_term'[n] >= current_term[n]
       /\ state'[n] = "FOLLOWER"

\* A delivered COORDINATOR of a term below the receiver's changes nothing.
ViejoIgnorado ==
  \A msg \in buzon \ buzon' :
    (msg.tipo = "COORDINATOR" /\ vivo'[msg.para] /\ msg.term < current_term[msg.para])
      => /\ current_leader'[msg.para] = current_leader[msg.para]
         /\ state'[msg.para] = state[msg.para]
         /\ current_term'[msg.para] = current_term[msg.para]

C4_UnLiderPorTerm ==
  \A a \in Vivos : \A b \in Vivos :
    (a # b /\ state[a] = "LEADER" /\ state[b] = "LEADER")
      => (current_term[a] # current_term[b])

(***************************************************************************)
(*                                                                         *)
(* The election engine with its timers.  The nodes that are up reach one   *)
(* another and every message is handled well within a timeout, so a timer  *)
(* fires only for the reason it is there: an election starts at startup,   *)
(* when the node LeaderRef names is down, when the wait for COORDINATOR    *)
(* ran out with no election left that could send one, and on a leader that *)
(* hears the ANNOUNCE of a higher-id peer.  The heartbeat window, the wait *)
(* and the announce interval are long: by the time one of them runs out,   *)
(* the messages that were in flight have been handled.                     *)
(*                                                                         *)
(***************************************************************************)
\* Cap on current_term when the timers are modelled.
MaxTermVivo == 6

SinCaida == [lider |-> 0, term |-> 0, max |-> 0]

\* The highest Term among the nodes.
MaxTermActual == CHOOSE t \in {current_term[m] : m \in Miembros} :
                   \A m \in Miembros : current_term[m] <= t

InitHistoria ==
  /\ caido = SinCaida
  /\ entrante = 0
  /\ tope = MaxTerm

InitHistoriaVivo ==
  /\ caido = SinCaida
  /\ entrante = 0
  /\ tope = MaxTermVivo

\* A cluster after its first election: the node of the highest id started
\* first, found no higher peer, became LEADER at Term 1, and every other
\* node adopted its COORDINATOR(1, leader).
InitBullyVivo ==
  /\ state = [n \in Miembros |-> IF n = NumMiembros THEN "LEADER" ELSE "FOLLOWER"]
  /\ current_term = [n \in Miembros |-> 1]
  /\ current_leader = [n \in Miembros |-> NumMiembros]
  /\ vivo = [n \in Miembros |-> TRUE]
  /\ buzon = {}

\* Startup: the node has run no election and knows no leader.
arranque(n) ==
  /\ current_term[n] = 0
  /\ current_leader[n] = 0
  /\ start_election(n)
  /\ UNCHANGED historiaVars

\* Leader suspected lost: LeaderRef cannot be contacted.
lider_perdido(n) ==
  /\ current_leader[n] # 0
  /\ ~vivo[current_leader[n]]
  /\ buzon = {}
  /\ start_election(n)
  /\ UNCHANGED historiaVars

\* Step 3, the wait for COORDINATOR ran out: no message is in flight and no
\* running node is in an election.
reintento(n) ==
  /\ state[n] = "FOLLOWER"
  /\ current_leader[n] = 0
  /\ current_term[n] > 0
  /\ buzon = {}
  /\ \A m \in Vivos : state[m] # "CANDIDATE"
  /\ start_election(n)
  /\ UNCHANGED historiaVars

\* ANNOUNCE from a higher-id peer while self is LEADER.
anuncio_de_mayor(n) ==
  /\ state[n] = "LEADER"
  /\ Mayores(n) \cap Vivos # {}
  /\ buzon = {}
  /\ start_election(n)
  /\ UNCHANGED historiaVars

\* The leader is killed; the nodes that remain stay up.
lider_cae(n) ==
  /\ vivo[n]
  /\ state[n] = "LEADER"
  /\ caido = SinCaida
  /\ Cardinality(Vivos) > 1
  /\ caido' = [lider |-> n, term |-> current_term[n], max |-> MaxTermActual]
  /\ vivo' = [vivo EXCEPT ![n] = FALSE]
  /\ state' = [state EXCEPT ![n] = "FOLLOWER"]
  /\ current_term' = [current_term EXCEPT ![n] = 0]
  /\ current_leader' = [current_leader EXCEPT ![n] = 0]
  /\ buzon' = {msg \in buzon : msg.para # n}
  /\ UNCHANGED <<entrante, tope>>
  /\ UNCHANGED fueraDeEleccion

\* A node whose id is above every running node joins, with a fresh
\* process, a quiet cluster whose nodes all name the same running leader.
se_une(n) ==
  /\ ~vivo[n]
  /\ entrante = 0
  /\ \A m \in Vivos : m < n
  /\ buzon = {}
  /\ \E h \in Vivos : state[h] = "LEADER" /\ \A m \in Vivos : current_leader[m] = h
  /\ vivo' = [vivo EXCEPT ![n] = TRUE]
  /\ entrante' = n
  /\ UNCHANGED <<state, current_term, current_leader, buzon, caido, tope>>
  /\ UNCHANGED fueraDeEleccion

Entrega ==
  \/ \E msg \in buzon : recv_ELECTION(msg) /\ UNCHANGED historiaVars
  \/ \E msg \in buzon : recv_OK(msg) /\ UNCHANGED historiaVars
  \/ \E msg \in buzon : recv_COORDINATOR(msg) /\ UNCHANGED historiaVars

Temporizadores ==
  \/ \E n \in Miembros : arranque(n)
  \/ \E n \in Miembros : lider_perdido(n)
  \/ \E n \in Miembros : reintento(n)
  \/ \E n \in Miembros : anuncio_de_mayor(n)
  \/ \E n \in Miembros : become_leader(n) /\ UNCHANGED historiaVars

NextBullyVivo ==
  \/ Entrega
  \/ Temporizadores
  \/ \E n \in Miembros : lider_cae(n)
  \/ \E n \in Miembros : se_une(n)

\* Every message is handled and every timer fires; kills and joins are up
\* to the environment.
FairBullyVivo == WF_vars(Entrega) /\ WF_vars(Temporizadores)

\* The running node of the highest id.
MayorVivo == CHOOSE h \in Vivos : \A m \in Vivos : m <= h

\* The surviving node of the highest id leads with a Term above the one the
\* killed leader had, and every other survivor names it as leader.
NuevoLiderReconocido ==
  LET h == MayorVivo
  IN /\ state[h] = "LEADER"
     /\ current_term[h] > caido.term
     /\ \A m \in Vivos \ {h} : current_leader[m] = h

\* The survivor of the highest id has used up the Terms of the model.
TopeDelMayor == current_term[MayorVivo] = tope

EntranteReconocido ==
  \A m \in Vivos :
    /\ current_leader[m] = entrante
    /\ (state[m] = "LEADER") <=> (m = entrante)

\* The node that joined has used up the Terms of the model.
TopeDelEntrante == \E n \in Miembros : n = entrante /\ current_term[n] = tope

MaxPeers == 3
\* Cap on the commands a store takes.
MaxComandos == 2

Respuestas == {"CONSENSO_OK", "CONSENSO_RECHAZADO", "ERROR", "sin_respuesta"}

\* Variant: the threshold without its "+ 1".
UmbralConsenso_mitad(total) == total \div 2

\* umbral_consenso = (total_nodos // 2) + 1
UmbralConsenso(total) == (total \div 2) + 1

\* confirmaciones: the remote nodes that answered CONSENSO_OK.
Confirmaciones(respuestas) ==
  Cardinality({i \in DOMAIN respuestas : respuestas[i] = "CONSENSO_OK"})

CRespBase ==
  [op |-> "none", confirmaciones |-> 0, ok |-> FALSE, antes |-> 0, local |-> FALSE]

\* The program as shipped lists no remote node.
InitConsenso ==
  /\ total_nodos = 0
  /\ almacen = 0
  /\ almacen_remoto = [i \in 1..MaxPeers |-> 0]
  /\ cresp = CRespBase

\* A node configured with any number of remote nodes.
InitConsensoCfg ==
  /\ total_nodos \in 0..MaxPeers
  /\ almacen = 0
  /\ almacen_remoto = [i \in 1..MaxPeers |-> 0]
  /\ cresp = CRespBase

\* The remote nodes that answer CONSENSO_OK have run the command.
RemotosTras(respuestas) ==
  [i \in 1..MaxPeers |->
     IF i \in DOMAIN respuestas /\ respuestas[i] = "CONSENSO_OK"
     THEN almacen_remoto[i] + 1 ELSE almacen_remoto[i]]

\* localOk: ejecutar_transaccion_local returns a true value.
propagar_transaccion_con_consenso(respuestas, localOk) ==
  /\ almacen < MaxComandos
  /\ \A i \in 1..MaxPeers : almacen_remoto[i] < MaxComandos
  /\ IF total_nodos = 0
     THEN /\ almacen' = IF localOk THEN almacen + 1 ELSE almacen
          /\ cresp' = [op |-> "propagar", confirmaciones |-> 0, ok |-> localOk,
                       antes |-> almacen, local |-> TRUE]
          /\ UNCHANGED almacen_remoto
     ELSE LET confirmaciones == Confirmaciones(respuestas)
              aplica == confirmaciones >= UmbralConsenso(total_nodos) /\ localOk
          IN /\ almacen_remoto' = RemotosTras(respuestas)
             /\ almacen' = IF aplica THEN almacen + 1 ELSE almacen
             /\ cresp' = [op |-> "propagar", confirmaciones |-> confirmaciones,
                          ok |-> aplica, antes |-> almacen, local |-> FALSE]
  /\ UNCHANGED total_nodos
  /\ UNCHANGED fueraDeConsenso

NextConsenso ==
  \E respuestas \in [1..total_nodos -> Respuestas], localOk \in BOOLEAN :
    propagar_transaccion_con_consenso(respuestas, localOk)

\* C11: a propagation applies the command to the originator's store and
\* reports success only with at least floor(N/2)+1 CONSENSO_OK answers; with
\* fewer it reports failure and the originator's store is unchanged.
C11_SoloConMayoria ==
  (cresp.op = "propagar") =>
     /\ (cresp.ok \/ almacen # cresp.antes)
          => cresp.confirmaciones >= (total_nodos \div 2) + 1
     /\ (cresp.confirmaciones < (total_nodos \div 2) + 1)
          => (~cresp.ok /\ almacen = cresp.antes)

\* C11 (amended): the same for a node that lists at least one remote node; a
\* node that lists none runs the command on its own store with no answer at
\* all, and reports what the local run returned.
C11_SoloConMayoria_ConPares ==
  (cresp.op = "propagar") =>
     /\ (total_nodos >= 1) =>
          /\ (cresp.ok \/ almacen # cresp.antes)
               => cresp.confirmaciones >= (total_nodos \div 2) + 1
          /\ (cresp.confirmaciones < (total_nodos \div 2) + 1)
               => (~cresp.ok /\ almacen = cresp.antes)
     /\ (total_nodos = 0) =>
          /\ cresp.local
          /\ cresp.ok <=> (almacen # cresp.antes)

\* Exactly N/2 answers of CONSENSO_OK: failure, the store as it was.
C11_Witness ==
  /\ cresp.op = "propagar"
  /\ total_nodos = 2
  /\ cresp.confirmaciones = 1
  /\ ~cresp.ok
  /\ almacen = cresp.antes

(***************************************************************************)
(*                                                                         *)
(* The entry points of CreateVisit on one node, with the node's view of    *)
(* the leader: the console action create_visit (leader path and follower   *)
(* path with its retry loop), the TUI screen and the cluster endpoint.     *)
(* The election engine changes the leader at any time.                     *)
(*                                                                         *)
(***************************************************************************)
\* app.config['NODE_ID'] of the node.
Yo == 1
\* create_visit: max_retries = 3
max_retries == 3
\* Cap on the visits the node inserts.
MaxInsertadas == 2

\* What requests.post to the leader ends with.
ResultadosPost == {"success", "rechazada", "http_error", "Timeout",
                   "ConnectionError", "Exception"}

PRespBase == [op |-> "ninguna", ok |-> FALSE, error |-> "ninguno"]

\* No leader has been elected when the node starts.
InitProxy ==
  /\ lider_ref = 0
  /\ pc = "menu"
  /\ is_leader = FALSE
  /\ attempt = 0
  /\ transaccion = "ninguna"
  /\ insertadas = 0
  /\ como_seguidor = FALSE
  /\ enviadas = <<>>
  /\ presp = PRespBase

\* bully_manager.is_leader()
EsLider == lider_ref = Yo

\* The election engine names another leader, or none.
eleccion(l) ==
  /\ l # lider_ref
  /\ lider_ref' = l
  /\ UNCHANGED <<pc, is_leader, attempt, transaccion, insertadas,
                 como_seguidor, enviadas, presp>>
  /\ UNCHANGED fueraDeProxy

\* create_visit up to the confirmation prompt: is_leader is read first, the
\* patient may be added and flushed, the doctor, bed and worker are chosen.
create_visit_inicio ==
  /\ pc = "menu"
  /\ pc' = "formulario"
  /\ is_leader' = EsLider
  /\ attempt' = 0
  /\ transaccion' = "abierta"
  /\ enviadas' = <<>>
  /\ presp' = PRespBase
  /\ UNCHANGED <<lider_ref, insertadas, como_seguidor>>
  /\ UNCHANGED fueraDeProxy

\* The user does not confirm.
create_visit_cancelada ==
  /\ pc = "formulario"
  /\ pc' = "menu"
  /\ transaccion' = "rollback"
  /\ presp' = [op |-> "create_visit", ok |-> FALSE, error |-> "cancelada"]
  /\ UNCHANGED <<lider_ref, is_leader, attempt, insertadas, como_seguidor, enviadas>>
  /\ UNCHANGED fueraDeProxy

\* LEADER PATH: the visit is added to the node's own store and committed.
create_visit_lider ==
  /\ pc = "formulario"
  /\ is_leader
  /\ insertadas < MaxInsertadas
  /\ insertadas' = insertadas + 1
  /\ como_seguidor' = (como_seguidor \/ ~EsLider)
  /\ transaccion' = "commit"
  /\ pc' = "menu"
  /\ presp' = [op |-> "create_visit", ok |-> TRUE, error |-> "ninguno"]
  /\ UNCHANGED <<lider_ref, is_leader, attempt, enviadas>>
  /\ UNCHANGED fueraDeProxy

\* FOLLOWER PATH: the request data is prepared and the retry loop starts.
create_visit_seguidor ==
  /\ pc = "formulario"
  /\ ~is_leader
  /\ pc' = "reintentos"
  /\ UNCHANGED <<lider_ref, is_leader, attempt, transaccion, insertadas,
                 como_seguidor, enviadas, presp>>
  /\ UNCHANGED fueraDeProxy

\* The action returns False after db.session.rollback().
Falla(error) ==
  /\ transaccion' = "rollback"
  /\ pc' = "menu"
  /\ presp' = [op |-> "create_visit", ok |-> FALSE, error |-> error]
  /\ UNCHANGED <<attempt, insertadas>>

\* One pass of "for attempt in range(max_retries)": get_leader_flask_url,
\* requests.post to the leader's /api/cluster/create-visit, and the branch
\* taken on what comes back.  A node that has become leader meanwhile posts
\* to its own endpoint, which inserts the visit.
intento(res) ==
  /\ pc = "reintentos"
  /\ attempt < max_retries
  /\ UNCHANGED <<lider_ref, is_leader, como_seguidor>>
  /\ UNCHANGED fueraDeProxy
  /\ IF lider_ref = 0
       THEN Falla("NoLeader") /\ UNCHANGED enviadas
       ELSE /\ enviadas' = Append(enviadas, lider_ref)
            /\ CASE res = "success" ->
                      /\ EsLider => insertadas < MaxInsertadas
                      /\ insertadas' = IF EsLider THEN insertadas + 1 ELSE insertadas
                      /\ transaccion' = "commit"
                      /\ pc' = "menu"
                      /\ presp' = [op |-> "create_visit", ok |-> TRUE, error |-> "ninguno"]
                      /\ UNCHANGED attempt
                 [] res \in {"rechazada", "Exception"} -> Falla(res)
                 [] OTHER ->
                      IF attempt < max_retries - 1
                        THEN /\ attempt' = attempt + 1
                             /\ UNCHANGED <<pc, transaccion, insertadas, presp>>
                        ELSE Falla(res)

\* SimpleCreateVisitScreen / CreateVisitWizard: _create_visit_in_db adds the
\* visit to the node's own store and commits, whatever the node's role.
tui_create_visit ==
  /\ insertadas < MaxInsertadas
  /\ insertadas' = insertadas + 1
  /\ como_seguidor' = (como_seguidor \/ ~EsLider)
  /\ UNCHANGED <<lider_ref, pc, is_leader, attempt, transaccion, enviadas, presp>>
  /\ UNCHANGED fueraDeProxy

NextProxy ==
  \/ \E l \in 0..NumNodos : eleccion(l)
  \/ create_visit_inicio
  \/ create_visit_cancelada
  \/ create_visit_lider
  \/ create_visit_seguidor
  \/ \E res \in ResultadosPost : intento(res)
  \/ tui_create_visit

\* C14: a node that is not the leader never inserts a visit itself; the
\* console action posts to a leader it resolved, at most max_retries times,
\* and when it reports failure its transaction is rolled back.
C14_SeguidorNoInserta ==
  /\ ~como_seguidor
  /\ Len(enviadas) <= max_retries
  /\ \A i \in 1..Len(enviadas) : enviadas[i] # 0
  /\ (presp.op = "create_visit" /\ ~presp.ok) => transaccion = "rollback"

(***************************************************************************)
(*                                                                         *)
(* create_visit_distributed on the leader, from its commit on: the visit   *)
(* is committed, replicate_visit_to_cluster posts it to every node of      *)
(* bully_manager.cluster_nodes except the leader, and the response goes    *)
(* out.  Each post ends well, is rejected, times out, finds nobody, or     *)
(* fails in some other way.                                                *)
(*                                                                         *)
(***************************************************************************)
\* Highest node id of the cluster; the leader is node Yo.
MaxNodosReplica == 4
\* Cap on the visits the leader commits.
MaxCommits == 2

NodosReplica == 1..MaxNodosReplica

\* What requests.post to /api/cluster/replicate-visit ends with.
ResultadosReplica == {"ok", "rechazo", "Timeout", "ConnectionError", "Exception"}

\* The node ids of a set, in order (the items of cluster_nodes).
RECURSIVE EnOrden(_)
EnOrden(S) ==
  IF S = {} THEN <<>>
  ELSE LET n == CHOOSE x \in S : \A y \in S : x <= y
       IN <<n>> \o EnOrden(S \ {n})

\* Variant: only a rejection is recorded.
FailedTras_soloRechazo(failed, n, res) ==
  IF res = "rechazo" THEN Append(failed, n) ELSE failed

\* failed_nodes.append(node_id) in the else branch and in every except.
FailedTras(failed, n, res) ==
  IF res = "ok" THEN failed ELSE Append(failed, n)

\* The loop of replicate_visit_to_cluster over nodes_info.
RECURSIVE BucleReplica(_, _, _, _)
BucleReplica(nodes_info, resultados, exclude_node_id, acc) ==
  IF nodes_info = <<>> THEN acc
  ELSE LET n == Head(nodes_info)
           res == resultados[n]
       IN IF n = Yo \/ n = exclude_node_id
            THEN BucleReplica(Tail(nodes_info), resultados, exclude_node_id, acc)
            ELSE BucleReplica(Tail(nodes_info), resultados, exclude_node_id,
                   [success_count |-> IF res = "ok" THEN acc.success_count + 1
                                      ELSE acc.success_count,
                    failed_nodes |-> FailedTras(acc.failed_nodes, n, res),
                    intentados |-> Append(acc.intentados, n)])

replicate_visit_to_cluster(cluster_nodes, resultados, exclude_node_id) ==
  LET nodes_info == EnOrden(cluster_nodes)
      fin == BucleReplica(nodes_info, resultados, exclude_node_id,
               [success_count |-> 0, failed_nodes |-> <<>>, intentados |-> <<>>])
      sin_mi == Len(nodes_info) - (IF Yo \in cluster_nodes THEN 1 ELSE 0)
  IN [success_count |-> fin.success_count,
      failed_nodes |-> fin.failed_nodes,
      intentados |-> fin.intentados,
      total_nodes |-> IF exclude_node_id # 0 THEN sin_mi - 1 ELSE sin_mi]

RRespBase == [op |-> "ninguna", success |-> FALSE, folio |-> 0, antes |-> 0,
              cluster_nodes |-> {}, resultados |-> <<>>,
              replication_result |-> [success_count |-> 0, failed_nodes |-> <<>>,
                                      intentados |-> <<>>, total_nodes |-> 0]]

InitReplica ==
  /\ vlider = 0
  /\ rresp = RRespBase

\* The request passed validation: commit, replication, response 201.
create_visit_replicada(cluster_nodes, resultados) ==
  /\ vlider < MaxCommits
  /\ vlider' = vlider + 1
  /\ rresp' = [op |-> "create_visit", success |-> TRUE, folio |-> vlider + 1,
               antes |-> vlider, cluster_nodes |-> cluster_nodes,
               resultados |-> resultados,
               replication_result |->
                 replicate_visit_to_cluster(cluster_nodes, resultados, Yo)]
  /\ UNCHANGED fueraDeReplica

NextReplica ==
  \E cluster_nodes \in SUBSET NodosReplica :
    \E resultados \in [cluster_nodes \ {Yo} -> ResultadosReplica] :
      create_visit_replicada(cluster_nodes, resultados)

SeqASet(s) == {s[i] : i \in 1..Len(s)}

\* C15: the response to a create-visit the leader committed is a success
\* with the folio of the committed visit, the visit stays committed, every
\* peer of the cluster was posted to, and failed_nodes holds exactly the
\* peers whose post did not end well.
C15_ExitoPeseAReplicacion ==
  rresp.op = "create_visit" =>
    LET pares == rresp.cluster_nodes \ {Yo}
        r == rresp.replication_result
    IN /\ rresp.success
       /\ rresp.folio = vlider
       /\ vlider = rresp.antes + 1
       /\ SeqASet(r.intentados) = pares
       /\ SeqASet(r.failed_nodes) = {n \in pares : rresp.resultados[n] # "ok"}
       /\ r.success_count = Cardinality({n \in pares : rresp.resultados[n] = "ok"})

\* Node 2 timed out, node 3 rejected, node 4 was posted to and took it.
C15_Witness ==
  /\ rresp.op = "create_visit"
  /\ rresp.cluster_nodes = NodosReplica
  /\ rresp.resultados[2] = "Timeout"
  /\ rresp.resultados[3] = "rechazo"
  /\ rresp.resultados[4] = "ok"
  /\ rresp.replication_result.failed_nodes = <<2, 3>>
  /\ rresp.replication_result.success_count = 1
  /\ rresp.success

(***************************************************************************)
(*                                                                         *)
(* bully/id_generator.py: generate_node_id scans candidate ids and probes  *)
(* the two ports derived from each with _is_port_available, which binds a  *)
(* TCP socket and then a UDP socket to the port number and closes them.    *)
(* Other programs of the host bind and release ports.                      *)
(*                                                                         *)
(***************************************************************************)
\* generate_node_id: tcp_port = 5555 + ..., udp_port = 6000 + ..., % 1000
base_tcp == 5555
base_udp == 6000
modulo_puerto == 1000
\* Highest start_id and max_attempts of the calls explored.
MaxStartId == 2
MaxAttempts == 2
\* Node processes (process identifiers) of the host.
NumProcesos == 2

Procesos == 1..NumProcesos

tcp_port(candidate_id) == base_tcp + (candidate_id % modulo_puerto)
udp_port(candidate_id) == base_udp + (candidate_id % modulo_puerto)

\* The ids a call can reach, and the port numbers derived from them.
Candidatos == 1..(MaxStartId + MaxAttempts - 1)
Puertos == {tcp_port(i) : i \in Candidatos} \cup {udp_port(i) : i \in Candidatos}

\* Variant: only the TCP bind is tried.
is_port_available_soloTcp(port, tcp, udp) == port \notin tcp

\* _is_port_available: the TCP bind and the UDP bind of the port both work.
is_port_available(port, tcp, udp) == port \notin tcp /\ port \notin udp

\* The loop of generate_node_id from attempt n_attempt on; 0 stands for RuntimeError.
RECURSIVE BuscarId(_, _, _, _, _)
BuscarId(start_id, max_attempts, n_attempt, tcp, udp) ==
  IF n_attempt >= max_attempts THEN 0
  ELSE LET candidate_id == start_id + n_attempt
       IN IF /\ is_port_available(tcp_port(candidate_id), tcp, udp)
             /\ is_port_available(udp_port(candidate_id), tcp, udp)
            THEN candidate_id
            ELSE BuscarId(start_id, max_attempts, n_attempt + 1, tcp, udp)

generate_node_id(start_id, max_attempts, tcp, udp) ==
  BuscarId(start_id, max_attempts, 0, tcp, udp)

GRespBase == [op |-> "ninguna", start_id |-> 0, max_attempts |-> 0, id |-> 0]

ProcBase == [pc |-> "nuevo", node_id |-> 0, devuelto |-> 0, persistido |-> FALSE]

IRespBase == [op |-> "ninguna", pid |-> 0, force_new |-> FALSE, id |-> 0,
              antes |-> 0, persistido_antes |-> FALSE, lectura_ok |-> FALSE,
              busqueda |-> FALSE, guardado |-> FALSE]

InitIdentidad ==
  /\ tcp_en_uso = {}
  /\ udp_en_uso = {}
  /\ gresp = GRespBase
  /\ nproc = [p \in Procesos |-> ProcBase]
  /\ archivo = [p \in Procesos |-> <<>>]
  /\ iresp = IRespBase

\* Another program binds a TCP socket to a port, or closes it.
otro_programa_tcp(port) ==
  /\ tcp_en_uso' = IF port \in tcp_en_uso THEN tcp_en_uso \ {port}
                   ELSE tcp_en_uso \cup {port}
  /\ gresp' = GRespBase
  /\ UNCHANGED <<udp_en_uso, nproc, archivo, iresp>>
  /\ UNCHANGED fueraDeIdentidad

\* Another program binds a UDP socket to a port, or closes it.
otro_programa_udp(port) ==
  /\ udp_en_uso' = IF port \in udp_en_uso THEN udp_en_uso \ {port}
                   ELSE udp_en_uso \cup {port}
  /\ gresp' = GRespBase
  /\ UNCHANGED <<tcp_en_uso, nproc, archivo, iresp>>
  /\ UNCHANGED fueraDeIdentidad

\* A call of generate_node_id(start_id, max_attempts).
llamar_generate_node_id(start_id, max_attempts) ==
  /\ gresp' = [op |-> "generate_node_id", start_id |-> start_id,
               max_attempts |-> max_attempts,
               id |-> generate_node_id(start_id, max_attempts, tcp_en_uso, udp_en_uso)]
  /\ UNCHANGED <<tcp_en_uso, udp_en_uso, nproc, archivo, iresp>>
  /\ UNCHANGED fueraDeIdentidad

NextGenerador ==
  \/ \E port \in Puertos : otro_programa_tcp(port)
  \/ \E port \in Puertos : otro_programa_udp(port)
  \/ \E start_id \in 1..MaxStartId : \E max_attempts \in 1..MaxAttempts :
       llamar_generate_node_id(start_id, max_attempts)

\* The ids the last call could try.
Rango == gresp.start_id .. (gresp.start_id + gresp.max_attempts - 1)

\* The answer the last call should give when the ids of libres are the free ones.
RespondeElMenor(libres) ==
  IF libres = {} THEN gresp.id = 0
  ELSE gresp.id \in libres /\ \A i \in libres : gresp.id <= i

\* C16 as stated: generate_node_id returns the smallest id of its range
\* whose TCP port is free for TCP and whose UDP port is free for UDP, and
\* it fails exactly when the range has no such id.
C16_MenorIdLibre ==
  gresp.op = "generate_node_id" =>
    RespondeElMenor({i \in Rango : /\ tcp_port(i) \notin tcp_en_uso
                                   /\ udp_port(i) \notin udp_en_uso})

\* C16, amended: generate_node_id returns the smallest id of its range
\* whose two derived port numbers are each free for TCP and for UDP, and it
\* fails exactly when the range has no such id.
C16_MenorIdLibre_AmbosProtocolos ==
  gresp.op = "generate_node_id" =>
    RespondeElMenor({i \in Rango :
       /\ tcp_port(i) \notin tcp_en_uso \cup udp_en_uso
       /\ udp_port(i) \notin tcp_en_uso \cup udp_en_uso})

\* Some program holds UDP port 5556 and nothing else is bound: id 1 is
\* passed over and the call returns 2.
C16_Witness ==
  /\ gresp.op = "generate_node_id"
  /\ gresp.start_id = 1
  /\ gresp.max_attempts = 2
  /\ tcp_en_uso = {}
  /\ udp_en_uso = {tcp_port(1)}
  /\ gresp.id = 2

(***************************************************************************)
(*                                                                         *)
(* Node processes of one host choosing their ids: get_or_create_node_id    *)
(* with its per-process file, and the later start of the node, which binds *)
(* the ports derived from the id.  A process is nuevo until its NODE_ID is *)
(* set, elegido until its ports are bound, then vivo; caido once it exits. *)
(*                                                                         *)
(***************************************************************************)
\* generate_node_id: max_attempts: int = 100
max_attempts_defecto == 100

\* json.load of the file text: the decimal digits of node_id.
RECURSIVE DeDecimal(_)
DeDecimal(texto) ==
  IF texto = <<>> THEN 0
  ELSE 10 * DeDecimal(SubSeq(texto, 1, Len(texto) - 1)) + texto[Len(texto)]

\* Variant: the file is never found.
load_node_id_ciego(texto, lectura_ok) == 0

\* load_node_id: None (0) when the file is missing or cannot be read.
load_node_id(texto, lectura_ok) ==
  IF texto = <<>> \/ ~lectura_ok THEN 0 ELSE DeDecimal(texto)

\* save_node_id: the file is rewritten, or the error is logged and dropped.
save_node_id(texto, node_id, escritura_ok) ==
  IF escritura_ok THEN Digitos(node_id) ELSE texto

\* get_or_create_node_id in process p.  The first id returned becomes the
\* NODE_ID of the process (Config.initialize_node_id).
get_or_create_node_id(p, force_new, lectura_ok, escritura_ok) ==
  LET existing_id == IF force_new THEN 0 ELSE load_node_id(archivo[p], lectura_ok)
      busca == existing_id = 0
      new_id == generate_node_id(1, max_attempts_defecto, tcp_en_uso, udp_en_uso)
      id == IF busca THEN new_id ELSE existing_id
      guarda == busca /\ new_id # 0
  IN /\ nproc[p].pc \in {"nuevo", "elegido", "vivo"}
     /\ archivo' = [archivo EXCEPT ![p] =
                      IF guarda THEN save_node_id(@, new_id, escritura_ok) ELSE @]
     /\ nproc' = [nproc EXCEPT ![p] =
                    [pc |-> IF @.pc = "nuevo" /\ id # 0 THEN "elegido" ELSE @.pc,
                     node_id |-> IF @.pc = "nuevo" THEN id ELSE @.node_id,
                     devuelto |-> IF id # 0 THEN id ELSE @.devuelto,
                     persistido |-> IF busca THEN guarda /\ escritura_ok
                                    ELSE @.persistido]]
     /\ iresp' = [op |-> "get_or_create_node_id", pid |-> p, force_new |-> force_new,
                  id |-> id, antes |-> nproc[p].devuelto,
                  persistido_antes |-> nproc[p].persistido,
                  lectura_ok |-> lectura_ok,
                  busqueda |-> busca, guardado |-> guarda /\ escritura_ok]
     /\ UNCHANGED <<tcp_en_uso, udp_en_uso, gresp>>
     /\ UNCHANGED fueraDeIdentidad

\* The node starts: its TCP and UDP sockets are bound to the ports derived
\* from NODE_ID.  A process that finds one of them taken exits.
arrancar(p) ==
  /\ nproc[p].pc = "elegido"
  /\ LET id == nproc[p].node_id
         libres == tcp_port(id) \notin tcp_en_uso /\ udp_port(id) \notin udp_en_uso
     IN /\ tcp_en_uso' = IF libres THEN tcp_en_uso \cup {tcp_port(id)} ELSE tcp_en_uso
        /\ udp_en_uso' = IF libres THEN udp_en_uso \cup {udp_port(id)} ELSE udp_en_uso
        /\ nproc' = [nproc EXCEPT ![p].pc = IF libres THEN "vivo" ELSE "caido"]
  /\ UNCHANGED <<gresp, archivo, iresp>>
  /\ UNCHANGED fueraDeIdentidad

\* A running node stops and its sockets are closed.
terminar(p) ==
  /\ nproc[p].pc = "vivo"
  /\ tcp_en_uso' = tcp_en_uso \ {tcp_port(nproc[p].node_id)}
  /\ udp_en_uso' = udp_en_uso \ {udp_port(nproc[p].node_id)}
  /\ nproc' = [nproc EXCEPT ![p].pc = "caido"]
  /\ UNCHANGED <<gresp, archivo, iresp>>
  /\ UNCHANGED fueraDeIdentidad

NextIdentidad ==
  \/ \E p \in Procesos : \E force_new \in BOOLEAN :
       \E lectura_ok \in BOOLEAN : \E escritura_ok \in BOOLEAN :
         get_or_create_node_id(p, force_new, lectura_ok, escritura_ok)
  \/ \E p \in Procesos : arrancar(p)
  \/ \E p \in Procesos : terminar(p)

\* The process has its NODE_ID and is running.
ConId(p) == nproc[p].pc \in {"elegido", "vivo"}

\* C17: two node processes of the host that have chosen their ids and are
\* running never have the same node id.
C17_IdsUnicos ==
  \A p \in Procesos : \A q \in Procesos :
    (p # q /\ ConId(p) /\ ConId(q)) => nproc[p].node_id # nproc[q].node_id

node_timeout == 3

MaxReloj == 5
MaxIdDisc == 3

IdsDisc == 1..MaxIdDisc

\* Addresses a message can come from: this host's loopback and LAN
\* addresses, and another host's.
DireccionesPropias == {"127.0.0.1", "10.0.0.1"}
DireccionesAjenas == {"10.0.0.2"}
Direcciones == DireccionesPropias \cup DireccionesAjenas

\* gethostbyname(gethostname()): the LAN address of this host, the address
\* the hosts file gives its name, or an error.
Resoluciones == {"10.0.0.1", "127.0.1.1", "gaierror"}

Mensajes == [type : {"ANNOUNCE", "LEAVE", "PING"}, node_id : IdsDisc, addr : Direcciones]

DRespBase == [op |-> "ninguna", msg |-> [type |-> "PING", node_id |-> 0, addr |-> "127.0.0.1"],
              my_ip |-> "127.0.0.1", antes |-> << >>, reloj |-> 0,
              descubiertos |-> {}, perdidos |-> {}, colision |-> FALSE]

InitDiscovery ==
  /\ reloj = 0
  /\ discovered_nodes = << >>
  /\ dresp = DRespBase

\* Variant: a peer is timed out once its age has reached node_timeout.
vencido_al_llegar(time_since_seen) == time_since_seen >= node_timeout

\* if time_since_seen > self.node_timeout
vencido(time_since_seen) == time_since_seen > node_timeout

\* _remove_node for every id of a set: the table without them, and the ids
\* on_node_lost is called for.
SinNodos(tabla, ids) == [n \in (DOMAIN tabla) \ ids |-> tabla[n]]

\* time.time() advances.
tic ==
  /\ reloj < MaxReloj
  /\ reloj' = reloj + 1
  /\ UNCHANGED <<discovered_nodes, dresp>>
  /\ UNCHANGED fueraDeDiscovery

\* One pass of _cleanup_loop.
cleanup ==
  LET nodes_to_remove ==
        {n \in DOMAIN discovered_nodes : vencido(reloj - discovered_nodes[n].last_seen)}
  IN /\ discovered_nodes' = SinNodos(discovered_nodes, nodes_to_remove)
     /\ dresp' = [DRespBase EXCEPT !.op = "cleanup", !.antes = discovered_nodes,
                                   !.reloj = reloj, !.perdidos = nodes_to_remove]
     /\ UNCHANGED reloj
     /\ UNCHANGED fueraDeDiscovery

\* The message carries this node's id: the collision test, then return.
propio(msg) ==
  /\ msg.node_id = Yo
  /\ \E my_ip \in Resoluciones :
     dresp' = [DRespBase EXCEPT !.op = "handle_message", !.msg = msg, !.my_ip = my_ip,
                 !.reloj = reloj,
                 !.colision = /\ my_ip # "gaierror"
                              /\ msg.addr # my_ip
                              /\ msg.addr # "127.0.0.1"]
  /\ UNCHANGED <<reloj, discovered_nodes>>

\* _handle_announce
handle_announce(msg) ==
  /\ msg.node_id # Yo
  /\ msg.type = "ANNOUNCE"
  /\ LET is_new == msg.node_id \notin DOMAIN discovered_nodes
     IN /\ discovered_nodes' =
             [n \in (DOMAIN discovered_nodes) \cup {msg.node_id} |->
                IF n = msg.node_id THEN [host |-> msg.addr, last_seen |-> reloj]
                ELSE discovered_nodes[n]]
        /\ dresp' = [DRespBase EXCEPT !.op = "handle_message", !.msg = msg,
                       !.reloj = reloj,
                       !.descubiertos = IF is_new THEN {msg.node_id} ELSE {}]
  /\ UNCHANGED reloj

\* _handle_leave
handle_leave(msg) ==
  /\ msg.node_id # Yo
  /\ msg.type = "LEAVE"
  /\ discovered_nodes' = SinNodos(discovered_nodes, {msg.node_id})
  /\ dresp' = [DRespBase EXCEPT !.op = "handle_message", !.msg = msg, !.reloj = reloj,
                 !.perdidos = {msg.node_id} \cap DOMAIN discovered_nodes]
  /\ UNCHANGED reloj

\* Unknown message type: logged.
desconocido(msg) ==
  /\ msg.node_id # Yo
  /\ msg.type \notin {"ANNOUNCE", "LEAVE"}
  /\ dresp' = [DRespBase EXCEPT !.op = "handle_message", !.msg = msg, !.reloj = reloj]
  /\ UNCHANGED <<reloj, discovered_nodes>>

\* _handle_message
handle_message(msg) ==
  /\ \/ propio(msg)
     \/ handle_announce(msg)
     \/ handle_leave(msg)
     \/ desconocido(msg)
  /\ UNCHANGED fueraDeDiscovery

NextDiscovery ==
  \/ tic
  \/ cleanup
  \/ \E msg \in Mensajes : handle_message(msg)

\* Age of a peer of the table the last cleanup pass looked at.
Edad(n) == dresp.reloj - dresp.antes[n].last_seen

\* C19 as stated: a cleanup pass evicts a peer, and calls on_lost for it,
\* when its age has reached node_timeout, and keeps it when its age is below.
C19_DesalojoAlLlegar ==
  dresp.op = "cleanup" =>
    \A n \in DOMAIN dresp.antes :
      /\ Edad(n) >= node_timeout
           => (n \notin DOMAIN discovered_nodes /\ n \in dresp.perdidos)
      /\ Edad(n) < node_timeout
           => (n \in DOMAIN discovered_nodes /\ n \notin dresp.perdidos)

\* C19, amended: a cleanup pass evicts a peer, and calls on_lost for it,
\* when its age is above node_timeout, and keeps it, unchanged, when its age
\* is node_timeout or less.
C19_DesalojoAlPasar ==
  dresp.op = "cleanup" =>
    \A n \in DOMAIN dresp.antes :
      /\ Edad(n) > node_timeout
           => (n \notin DOMAIN discovered_nodes /\ n \in dresp.perdidos)
      /\ Edad(n) <= node_timeout
           => /\ n \in DOMAIN discovered_nodes
              /\ discovered_nodes[n] = dresp.antes[n]
              /\ n \notin dresp.perdidos

\* One pass meets a peer past node_timeout and a peer exactly at it: the
\* first is evicted and the second stays.
C19_Witness ==
  /\ dresp.op = "cleanup"
  /\ \E n \in DOMAIN dresp.antes : \E m \in DOMAIN dresp.antes :
       /\ Edad(n) = node_timeout + 1
       /\ Edad(m) = node_timeout
       /\ dresp.perdidos = {n}
       /\ m \in DOMAIN discovered_nodes

\* C20: a message with this node's own id is never handled as a peer
\* message (the id is never in the peer table and never reported as
\* discovered or lost), and the id-collision callback is called exactly for
\* a message with the own id that comes from an address of another host.
C20_PropioIdDescartado ==
  /\ Yo \notin DOMAIN discovered_nodes
  /\ Yo \notin dresp.descubiertos \cup dresp.perdidos
  /\ dresp.op = "handle_message" =>
       (dresp.colision <=> (dresp.msg.node_id = Yo /\ dresp.msg.addr \in DireccionesAjenas))

(***************************************************************************)
(*                                                                         *)
(* get_all_cluster_stats on node Yo: the local counts, then one GET of     *)
(* /api/cluster/stats per node of bully_manager.cluster_nodes.             *)
(*                                                                         *)
(***************************************************************************)
MaxNodosStats == 3
MaxCuenta == 1

NodosStats == 1..MaxNodosStats

\* The six counts of a node.
Cuentas(x, y) ==
  [doctors_available |-> x, doctors_total |-> x + y,
   beds_available |-> y, beds_total |-> x + y,
   visits_active |-> y, visits_completed |-> x]

CuentasPosibles == {Cuentas(x, y) : x \in 0..MaxCuenta, y \in 0..MaxCuenta}

CuentasCero == Cuentas(0, 0)

\* What a GET can bring: a 200 with the counts, a 200 whose JSON lacks a
\* key, a status that is not ok, or an exception (timeout, refused).
RespuestasStats ==
  [tipo : {"ok"}, data : CuentasPosibles]
    \cup {[tipo |-> t, data |-> CuentasCero] : t \in {"sin_clave", "no_ok", "excepcion"}}

SumaCuentas(a, b) ==
  [doctors_available |-> a.doctors_available + b.doctors_available,
   doctors_total |-> a.doctors_total + b.doctors_total,
   beds_available |-> a.beds_available + b.beds_available,
   beds_total |-> a.beds_total + b.beds_total,
   visits_active |-> a.visits_active + b.visits_active,
   visits_completed |-> a.visits_completed + b.visits_completed]

\* Variant: a node whose GET raised is left out of the list.
entrada_de_nodo_sin_caidos(node_id, r) ==
  IF r.tipo = "ok" THEN <<[node_id |-> node_id, status |-> "online", cuentas |-> r.data]>>
  ELSE IF r.tipo = "no_ok" THEN <<[node_id |-> node_id, status |-> "error", cuentas |-> CuentasCero]>>
  ELSE <<>>

\* What one turn of the loop appends to cluster_stats['nodes'].
entrada_de_nodo(node_id, r) ==
  IF r.tipo = "ok" THEN <<[node_id |-> node_id, status |-> "online", cuentas |-> r.data]>>
  ELSE IF r.tipo = "no_ok" THEN <<[node_id |-> node_id, status |-> "error", cuentas |-> CuentasCero]>>
  ELSE <<[node_id |-> node_id, status |-> "offline", cuentas |-> CuentasCero]>>

\* What one turn of the loop adds to the totals.
aporte_de_nodo(r) == IF r.tipo = "ok" THEN r.data ELSE CuentasCero

\* The loop over nodes_info, from the entry and totals of the local node.
RECURSIVE BucleStats(_, _, _)
BucleStats(pendientes, respuestas, acc) ==
  IF pendientes = {} THEN acc
  ELSE LET node_id == Min(pendientes)
           sig == IF node_id = Yo THEN acc
                  ELSE [nodes |-> acc.nodes \o entrada_de_nodo(node_id, respuestas[node_id]),
                        totales |-> SumaCuentas(acc.totales, aporte_de_nodo(respuestas[node_id]))]
       IN BucleStats(pendientes \ {node_id}, respuestas, sig)

SRespBase == [op |-> "ninguna", cluster_nodes |-> {}, respuestas |-> << >>,
              local |-> CuentasCero, nodes |-> << >>, totales |-> CuentasCero]

InitStats == sresp = SRespBase

get_all_cluster_stats(cluster_nodes, local, respuestas) ==
  LET inicio == [nodes |-> <<[node_id |-> Yo, status |-> "local", cuentas |-> local]>>,
                 totales |-> local]
      fin == BucleStats(cluster_nodes, respuestas, inicio)
  IN /\ sresp' = [op |-> "get_all_cluster_stats", cluster_nodes |-> cluster_nodes,
                  respuestas |-> respuestas, local |-> local,
                  nodes |-> fin.nodes, totales |-> fin.totales]
     /\ UNCHANGED fueraDeStats

NextStats ==
  \E cluster_nodes \in SUBSET NodosStats : \E local \in CuentasPosibles :
    \E respuestas \in [cluster_nodes \ {Yo} -> RespuestasStats] :
      get_all_cluster_stats(cluster_nodes, local, respuestas)

\* Sum of the counts of the peers of a set that replied with a 200 and counts.
RECURSIVE SumaDeLosQueRespondieron(_)
SumaDeLosQueRespondieron(S) ==
  IF S = {} THEN CuentasCero
  ELSE LET n == Min(S)
       IN SumaCuentas(IF sresp.respuestas[n].tipo = "ok" THEN sresp.respuestas[n].data
                      ELSE CuentasCero,
                      SumaDeLosQueRespondieron(S \ {n}))

\* C21: get_all_cluster_stats returns for any mix of replying and silent
\* peers; every known peer is listed exactly once, a peer whose request
\* raised is listed offline, and the totals are the local counts plus the
\* counts of the peers that replied successfully.
C21_StatsTolerantes ==
  sresp.op = "get_all_cluster_stats" =>
    LET peers == sresp.cluster_nodes \ {Yo}
    IN /\ \A n \in peers :
            Cardinality({i \in 1..Len(sresp.nodes) : sresp.nodes[i].node_id = n}) = 1
       /\ \A i \in 1..Len(sresp.nodes) :
            sresp.nodes[i].node_id # Yo =>
              /\ sresp.nodes[i].node_id \in peers
              /\ sresp.respuestas[sresp.nodes[i].node_id].tipo = "excepcion"
                   => sresp.nodes[i].status = "offline"
              /\ sresp.nodes[i].status = "online"
                   <=> sresp.respuestas[sresp.nodes[i].node_id].tipo = "ok"
       /\ sresp.totales = SumaCuentas(sresp.local, SumaDeLosQueRespondieron(peers))

\* Node 2 replies with counts and node 3 does not reply: the call returns
\* with node 3 offline and the totals of node 1 and node 2.
C21_Witness ==
  /\ sresp.op = "get_all_cluster_stats"
  /\ sresp.cluster_nodes = {1, 2, 3}
  /\ sresp.respuestas[2] = [tipo |-> "ok", data |-> Cuentas(1, 1)]
  /\ sresp.respuestas[3].tipo = "excepcion"
  /\ sresp.local = Cuentas(1, 0)
  /\ Len(sresp.nodes) = 3
  /\ sresp.nodes[3] = [node_id |-> 3, status |-> "offline", cuentas |-> CuentasCero]
  /\ sresp.totales = Cuentas(2, 1)

\* C22: in every store, the state of every visit is activa, completada or
\* cancelada.
C22_EstadoDeVisita ==
  \A n \in Nodos : \A i \in DOMAIN visitas[n] :
    visitas[n][i].estado \in {"activa", "completada", "cancelada"}

(***************************************************************************)
(*                                                                         *)
(* The lock manager of "Primer entregable.py": solicitar_bloqueo_-         *)
(* distribuido on the console thread of a node, one connection per remote  *)
(* node, each served there by a handle_client thread of its own, and       *)
(* liberar_bloqueo_distribuido.  bloqueos_locales maps a key to the time   *)
(* it was written; the model keeps, in its place, the nodes the key was    *)
(* written for (the node itself, or the requesters it approved), and the   *)
(* key is in the table when that set is not empty.                         *)
(*                                                                         *)
(***************************************************************************)
NumNodosCandado == 3
NumRecursos == 1
NumSolicitantes == 2
MaxSolicitudes == 3

NodosCandado == 1..NumNodosCandado
\* The nodes whose user asks for locks; the store of the last of them is the
\* one that transactions change.
Solicitantes == 1..NumSolicitantes
ClavesCandado == {<<"DOCTOR", r>> : r \in 1..NumRecursos}

\* clave in bloqueos_locales
EnTabla(m, k) == entradas[m][k] # {}

Ocioso == [pc |-> "ocioso", k |-> <<"DOCTOR", 1>>, pend |-> {}, aprob |-> {},
           esp |-> 0, tenia |-> FALSE]

BRespBase == [op |-> "ninguna", n |-> 0, ok |-> FALSE, tenia |-> FALSE,
              aprobaron |-> {}, registro |-> FALSE]

\* A run of the program: every node lists the two others.
InitCandado ==
  /\ conocidos = [n \in NodosCandado |-> NodosCandado \ {n}]
  /\ entradas = [n \in NodosCandado |-> [k \in ClavesCandado |-> {}]]
  /\ recurso_libre = [n \in NodosCandado |-> [k \in ClavesCandado |-> TRUE]]
  /\ hilo = [n \in NodosCandado |-> Ocioso]
  /\ manejadores = {}
  /\ bresp = BRespBase
  /\ solicitudes = 0

\* The same, or every node with an empty NODOS_REMOTOS.
InitCandadoCfg ==
  /\ conocidos \in {[n \in NodosCandado |-> NodosCandado \ {n}],
                    [n \in NodosCandado |-> {}]}
  /\ entradas = [n \in NodosCandado |-> [k \in ClavesCandado |-> {}]]
  /\ recurso_libre = [n \in NodosCandado |-> [k \in ClavesCandado |-> TRUE]]
  /\ hilo = [n \in NodosCandado |-> Ocioso]
  /\ manejadores = {}
  /\ bresp = BRespBase
  /\ solicitudes = 0

\* Variant: the key is written into the local table whatever the outcome.
bloqueo_local_siempre(para, n, concedido) == para \cup {n}

\* bloqueos_locales[clave] = datetime.now(), on the two paths that return True.
bloqueo_local(para, n, concedido) == IF concedido THEN para \cup {n} ELSE para

\* solicitar_bloqueo_distribuido returns: the local table and the record of
\* the call.
Retorna(n, k, concedido, aprobaron, tenia) ==
  /\ entradas' = [entradas EXCEPT ![n][k] = bloqueo_local(@, n, concedido)]
  /\ hilo' = [hilo EXCEPT ![n] = Ocioso]
  /\ bresp' = [op |-> "solicitar_bloqueo_distribuido", n |-> n,
               ok |-> concedido, tenia |-> tenia, aprobaron |-> aprobaron,
               registro |-> n \in bloqueo_local({}, n, concedido)]

\* The call, up to the loop: the local verification, and the lock that is
\* only local when there are no remote nodes.
solicitar_bloqueo_distribuido(n, k) ==
  /\ hilo[n].pc = "ocioso"
  /\ solicitudes < MaxSolicitudes
  /\ solicitudes' = solicitudes + 1
  /\ IF ~recurso_libre[n][k]
     THEN Retorna(n, k, FALSE, {}, EnTabla(n, k))
     ELSE IF conocidos[n] = {}
          THEN Retorna(n, k, TRUE, {}, EnTabla(n, k))
          ELSE /\ hilo' = [hilo EXCEPT ![n] =
                             [pc |-> "pidiendo", k |-> k, pend |-> conocidos[n],
                              aprob |-> {}, esp |-> 0, tenia |-> EnTabla(n, k)]]
               /\ UNCHANGED <<entradas, bresp>>
  /\ UNCHANGED <<conocidos, recurso_libre, manejadores>>
  /\ UNCHANGED fueraDeCandado

\* One turn of the loop: connect to the next remote node and send the
\* request; a node that cannot be reached ends the call with False.
conectar(n, alcanzable) ==
  /\ hilo[n].pc = "pidiendo"
  /\ hilo[n].pend # {}
  /\ LET m == Min(hilo[n].pend) IN
       IF alcanzable
       THEN /\ manejadores' = manejadores \cup
                                {[en |-> m, de |-> n, k |-> hilo[n].k, paso |-> "tabla"]}
            /\ hilo' = [hilo EXCEPT ![n].pc = "esperando", ![n].esp = m]
            /\ UNCHANGED <<entradas, bresp>>
       ELSE /\ Retorna(n, hilo[n].k, FALSE, hilo[n].aprob, hilo[n].tenia)
            /\ UNCHANGED manejadores
  /\ UNCHANGED <<conocidos, recurso_libre>>
  /\ UNCHANGED solicitudes
  /\ UNCHANGED fueraDeCandado

\* s.recv times out after 3 s: the call ends with False.
sin_respuesta(n) ==
  /\ hilo[n].pc = "esperando"
  /\ Retorna(n, hilo[n].k, FALSE, hilo[n].aprob, hilo[n].tenia)
  /\ UNCHANGED <<conocidos, recurso_libre, manejadores>>
  /\ UNCHANGED solicitudes
  /\ UNCHANGED fueraDeCandado

\* The requester of h still waits for the answer of h.
Espera(h) ==
  /\ hilo[h.de].pc = "esperando"
  /\ hilo[h.de].esp = h.en
  /\ hilo[h.de].k = h.k

\* BLOQUEO_RECHAZADO reaches the requester, if it still waits: the call
\* ends with False.
Rechaza(h) ==
  IF Espera(h) THEN Retorna(h.de, h.k, FALSE, hilo[h.de].aprob, hilo[h.de].tenia)
  ELSE UNCHANGED <<entradas, hilo, bresp>>

\* handle_client, SOLICITAR_BLOQUEO_ATOMICO, first block under lock_bloqueos:
\* a key that is in the table is refused.
handle_client_tabla(h) ==
  /\ h \in manejadores
  /\ h.paso = "tabla"
  /\ IF EnTabla(h.en, h.k)
     THEN /\ manejadores' = manejadores \ {h}
          /\ Rechaza(h)
     ELSE /\ manejadores' = (manejadores \ {h}) \cup {[h EXCEPT !.paso = "recurso"]}
          /\ UNCHANGED <<entradas, hilo, bresp>>
  /\ UNCHANGED <<conocidos, recurso_libre>>
  /\ UNCHANGED solicitudes
  /\ UNCHANGED fueraDeCandado

\* handle_client, verificar_recurso_local outside the lock.
handle_client_recurso(h) ==
  /\ h \in manejadores
  /\ h.paso = "recurso"
  /\ IF ~recurso_libre[h.en][h.k]
     THEN /\ manejadores' = manejadores \ {h}
          /\ Rechaza(h)
     ELSE /\ manejadores' = (manejadores \ {h}) \cup {[h EXCEPT !.paso = "anotar"]}
          /\ UNCHANGED <<entradas, hilo, bresp>>
  /\ UNCHANGED <<conocidos, recurso_libre>>
  /\ UNCHANGED solicitudes
  /\ UNCHANGED fueraDeCandado

\* handle_client, second block under lock_bloqueos: the key is written and
\* BLOQUEO_APROBADO sent; the requester, if it still waits, moves on.
handle_client_anotar(h) ==
  /\ h \in manejadores
  /\ h.paso = "anotar"
  /\ manejadores' = manejadores \ {h}
  /\ entradas' = [entradas EXCEPT ![h.en][h.k] = @ \cup {h.de}]
  /\ IF Espera(h)
     THEN hilo' = [hilo EXCEPT ![h.de].pc = "pidiendo", ![h.de].esp = 0,
                                ![h.de].pend = @ \ {h.en},
                                ![h.de].aprob = @ \cup {h.en}]
     ELSE UNCHANGED hilo
  /\ UNCHANGED <<conocidos, recurso_libre, bresp>>
  /\ UNCHANGED solicitudes
  /\ UNCHANGED fueraDeCandado

\* Step 3 of solicitar_bloqueo_distribuido: the loop is over, every node
\* approved.
todos_aprobaron(n) ==
  /\ hilo[n].pc = "pidiendo"
  /\ hilo[n].pend = {}
  /\ Retorna(n, hilo[n].k, Cardinality(hilo[n].aprob) = Cardinality(conocidos[n]),
             hilo[n].aprob, hilo[n].tenia)
  /\ UNCHANGED <<conocidos, recurso_libre, manejadores>>
  /\ UNCHANGED solicitudes
  /\ UNCHANGED fueraDeCandado

\* liberar_bloqueo_distribuido of a key the node acquired: the local entry
\* goes, and LIBERAR_BLOQUEO is sent to every remote node; handle_client of
\* a node that is reached deletes its entry, whoever it was written for; a
\* node that is not reached is skipped and keeps it.
liberar_bloqueo_distribuido(n, k, alcanzados) ==
  /\ hilo[n].pc = "ocioso"
  /\ n \in entradas[n][k]
  /\ entradas' = [m \in NodosCandado |->
                    IF m = n \/ m \in alcanzados THEN [entradas[m] EXCEPT ![k] = {}]
                    ELSE entradas[m]]
  /\ UNCHANGED <<conocidos, recurso_libre, hilo, manejadores, bresp>>
  /\ UNCHANGED solicitudes
  /\ UNCHANGED fueraDeCandado

\* ASIGNAR_RECURSOS or CERRAR_VISITA changes the resource in a store.
transaccion_en_recurso(n, k) ==
  /\ recurso_libre' = [recurso_libre EXCEPT ![n][k] = ~@]
  /\ UNCHANGED <<conocidos, entradas, hilo, manejadores, bresp>>
  /\ UNCHANGED solicitudes
  /\ UNCHANGED fueraDeCandado

NextCandado ==
  \/ \E n \in Solicitantes : \E k \in ClavesCandado : solicitar_bloqueo_distribuido(n, k)
  \/ \E n \in NodosCandado : \E alcanzable \in BOOLEAN : conectar(n, alcanzable)
  \/ \E n \in NodosCandado : sin_respuesta(n)
  \/ \E h \in manejadores : handle_client_tabla(h)
  \/ \E h \in manejadores : handle_client_recurso(h)
  \/ \E h \in manejadores : handle_client_anotar(h)
  \/ \E n \in NodosCandado : todos_aprobaron(n)
  \/ \E n \in NodosCandado : \E k \in ClavesCandado :
       \E alcanzados \in SUBSET conocidos[n] : liberar_bloqueo_distribuido(n, k, alcanzados)
  \/ \E k \in ClavesCandado : transaccion_en_recurso(NumSolicitantes, k)

\* C24: an acquire returns True only when every remote node the requester
\* knows approved, and an acquire that returns False has written no local
\* entry for the key.
C24_Unanime ==
  bresp.op = "solicitar_bloqueo_distribuido" =>
    /\ bresp.ok => (bresp.aprobaron = conocidos[bresp.n] /\ bresp.registro)
    /\ ~bresp.ok => ~bresp.registro

\* Node 1 was approved by node 2 and got no approval from node 3: the
\* acquire returned False and wrote nothing.
C24_Witness ==
  /\ bresp.op = "solicitar_bloqueo_distribuido"
  /\ bresp.n = 1
  /\ ~bresp.ok
  /\ bresp.aprobaron = {2}
  /\ conocidos[1] = {2, 3}
  /\ ~EnTabla(1, <<"DOCTOR", 1>>)

\* C25: an acquire of a key that is in the node's own table when the call
\* starts returns False.
C25_ConEntradaFalla ==
  (bresp.op = "solicitar_bloqueo_distribuido" /\ bresp.tenia) => ~bresp.ok

\* C26: a node has approved a key for at most one requester since the
\* entry of the key was last deleted.
C26_UnSoloOtorgado ==
  \A m \in NodosCandado : \A k \in ClavesCandado : Cardinality(entradas[m][k] \ {m}) <= 1

\* The steps the program takes on its own: a handle_client thread runs to
\* its end, the loop of an acquire goes on to the next remote node and to
\* its return, and a node that acquired a key releases it and reaches every
\* remote node.
EquidadCandado ==
  /\ WF_vars(\E h \in manejadores : handle_client_tabla(h))
  /\ WF_vars(\E h \in manejadores : handle_client_recurso(h))
  /\ WF_vars(\E h \in manejadores : handle_client_anotar(h))
  /\ WF_vars(\E n \in NodosCandado : conectar(n, TRUE))
  /\ WF_vars(\E n \in NodosCandado : todos_aprobaron(n))
  /\ WF_vars(\E n \in NodosCandado : \E k \in ClavesCandado :
               liberar_bloqueo_distribuido(n, k, conocidos[n]))

\* C27: an entry that a node wrote for a requester it approved is
\* eventually deleted from the table of that node.
C27_EntradaSeRetira ==
  \A m \in NodosCandado : \A k \in ClavesCandado :
    (entradas[m][k] \ {m} # {}) ~> (entradas[m][k] = {})

(***************************************************************************)
(*                                                                         *)
(* asignar_doctor_y_cama and distribuir_visita_automaticamente of "Primer  *)
(* entregable.py", each as one step from its call to its end.  What the    *)
(* lock manager, the store and the consensus round answer are inputs of    *)
(* the step; the workflow leaves the list of what it did with the locks.   *)
(*                                                                         *)
(***************************************************************************)
NumDoctoresFlujo == 2
NumCamasFlujo == 2

DoctoresFlujo == 1..NumDoctoresFlujo
CamasFlujo == 1..NumCamasFlujo

\* Where a sqlite3 error is raised, if anywhere: in verificar_recurso_local
\* of the second acquire, in the re-check of asignar_doctor_y_cama, or in
\* generar_folio_exacto.
PuntosDeExcepcion == {"ninguna", "cama", "verificacion", "folio"}

FRespBase == [op |-> "ninguna", eventos |-> <<>>, fin |-> "ninguno"]

InitFlujo ==
  /\ retenidos = {}
  /\ fresp = FRespBase

\* solicitar_bloqueo_distribuido returned True, returned False;
\* liberar_bloqueo_distribuido ran: local entry deleted, LIBERAR_BLOQUEO sent
\* to every remote node.
adquirido(tipo, id) == <<"adquirido", <<tipo, id>>>>
rechazado(tipo, id) == <<"rechazado", <<tipo, id>>>>
liberado(tipo, id) == <<"liberado", <<tipo, id>>>>

\* distribuir_visita_automaticamente, from the first acquire on: no try
\* block, so an error leaves the function where it is raised.
distribuir(did, cid, ok_d, ok_c, consenso, exc) ==
  IF ~ok_d THEN [eventos |-> <<rechazado("DOCTOR", did)>>, fin |-> "sin_doctor"]
  ELSE IF exc = "cama"
  THEN [eventos |-> <<adquirido("DOCTOR", did)>>, fin |-> "excepcion"]
  ELSE IF ~ok_c
  THEN [eventos |-> <<adquirido("DOCTOR", did), rechazado("CAMA", cid), liberado("DOCTOR", did)>>,
        fin |-> "sin_cama"]
  ELSE IF exc = "folio"
  THEN [eventos |-> <<adquirido("DOCTOR", did), adquirido("CAMA", cid)>>, fin |-> "excepcion"]
  ELSE [eventos |-> <<adquirido("DOCTOR", did), adquirido("CAMA", cid),
                      liberado("DOCTOR", did), liberado("CAMA", cid)>>,
        fin |-> IF consenso THEN "asignado" ELSE "sin_consenso"]

\* asignar_doctor_y_cama, from the first acquire on: the except branch
\* releases both keys, acquired or not.
asignar(did, cid, ok_d, ok_c, verificado, consenso, exc) ==
  IF ~ok_d THEN [eventos |-> <<rechazado("DOCTOR", did)>>, fin |-> "sin_doctor"]
  ELSE IF exc = "cama"
  THEN [eventos |-> <<adquirido("DOCTOR", did), liberado("DOCTOR", did), liberado("CAMA", cid)>>,
        fin |-> "excepcion"]
  ELSE IF ~ok_c
  THEN [eventos |-> <<adquirido("DOCTOR", did), rechazado("CAMA", cid), liberado("DOCTOR", did)>>,
        fin |-> "sin_cama"]
  ELSE [eventos |-> <<adquirido("DOCTOR", did), adquirido("CAMA", cid),
                      liberado("DOCTOR", did), liberado("CAMA", cid)>>,
        fin |-> IF exc = "verificacion" THEN "excepcion"
                ELSE IF ~verificado THEN "no_disponible"
                ELSE IF exc = "folio" THEN "excepcion"
                ELSE IF consenso THEN "asignado" ELSE "sin_consenso"]

\* The keys of the table after the events, one by one.
RECURSIVE TrasEventos(_, _)
TrasEventos(tabla, eventos) ==
  IF eventos = <<>> THEN tabla
  ELSE LET ev == Head(eventos) IN
       TrasEventos(IF ev[1] = "adquirido" THEN tabla \cup {ev[2]}
                   ELSE IF ev[1] = "liberado" THEN tabla \ {ev[2]}
                   ELSE tabla,
                   Tail(eventos))

\* The workflow has ended: what it did, and the keys still held.
flujo_asignar(did, cid, ok_d, ok_c, verificado, consenso, exc) ==
  LET r == asignar(did, cid, ok_d, ok_c, verificado, consenso, exc) IN
    /\ fresp' = [op |-> "asignar_doctor_y_cama", eventos |-> r.eventos, fin |-> r.fin]
    /\ retenidos' = TrasEventos(retenidos, r.eventos)
    /\ UNCHANGED fueraDeFlujo

flujo_distribuir(did, cid, ok_d, ok_c, consenso, exc) ==
  LET r == distribuir(did, cid, ok_d, ok_c, consenso, exc) IN
    /\ fresp' = [op |-> "distribuir_visita_automaticamente", eventos |-> r.eventos,
                 fin |-> r.fin]
    /\ retenidos' = TrasEventos(retenidos, r.eventos)
    /\ UNCHANGED fueraDeFlujo

NextFlujo ==
  \/ \E did \in DoctoresFlujo : \E cid \in CamasFlujo :
       \E ok_d \in BOOLEAN : \E ok_c \in BOOLEAN : \E verificado \in BOOLEAN :
         \E consenso \in BOOLEAN : \E exc \in PuntosDeExcepcion :
           flujo_asignar(did, cid, ok_d, ok_c, verificado, consenso, exc)
  \/ \E did \in DoctoresFlujo : \E cid \in CamasFlujo :
       \E ok_d \in BOOLEAN : \E ok_c \in BOOLEAN : \E consenso \in BOOLEAN :
         \E exc \in PuntosDeExcepcion \ {"verificacion"} :
           flujo_distribuir(did, cid, ok_d, ok_c, consenso, exc)

\* The DOCTOR key is asked for before the CAMA key.
DoctorAntesQueCama(eventos) ==
  \A i \in 1..Len(eventos) : \A j \in 1..Len(eventos) :
    (/\ eventos[i][1] \in {"adquirido", "rechazado"}
     /\ eventos[j][1] \in {"adquirido", "rechazado"}
     /\ eventos[i][2][1] = "DOCTOR"
     /\ eventos[j][2][1] = "CAMA") => i < j

\* Every key that was acquired is released later on.
TodoLiberado(eventos) ==
  \A i \in 1..Len(eventos) :
    eventos[i][1] = "adquirido" =>
      \E j \in (i + 1)..Len(eventos) : eventos[j] = <<"liberado", eventos[i][2]>>

\* C28: a workflow that ended asked for DOCTOR before CAMA and released,
\* locally and towards the remote nodes, every key it acquired, whatever
\* the path by which it ended.
C28_OrdenYLiberacion ==
  fresp.op # "ninguna" => (DoctorAntesQueCama(fresp.eventos) /\ TodoLiberado(fresp.eventos))

\* A step of create_visit_distributed that answered with an error.
CreateVisitRechazado ==
  /\ resp'.op = "create"
  /\ resp'.via = "endpoint"
  /\ ~resp'.ok
  /\ \E n \in Nodos, q \in PeticionesCrear, s \in Salas :
       create_visit_distributed(n, q.p, q.d, q.c, q.t, s)

\* C29: a create_visit_distributed that answers 400, 404, 409 or 500 leaves the
\* visits, the doctors, the beds and the sala sequence of every node as
\* they were, and puts nothing on the way to the other nodes.
C29_RechazoSinEfecto ==
  [][CreateVisitRechazado => UNCHANGED <<visitas, doctores, camas, consecutivos, red>>]_vars

\* The endpoint answered 500 on a node that holds visits: the commit failed
\* and was rolled back.
C29_Witness ==
  /\ resp.op = "create"
  /\ resp.via = "endpoint"
  /\ ~resp.ok
  /\ resp.error = "500"
  /\ \E n \in Nodos : Len(visitas[n]) > 0

\* The distributed locks a node of the Flask cluster holds.  The backend has
\* one lock, visit_creation_lock, a threading.Lock of the leader's process;
\* no request for a lock is ever sent to another node.
bloqueos_distribuidos(n) == {}

\* A step of create_visit_distributed that inserted a visit.
CreateVisitInsertado ==
  /\ resp'.op = "create"
  /\ resp'.via = "endpoint"
  /\ resp'.ok
  /\ \E n \in Nodos, q \in PeticionesCrear, s \in Salas :
       create_visit_distributed(n, q.p, q.d, q.c, q.t, s)

\* C30: when create_visit_distributed inserts a visit, the node holds the
\* distributed locks of the doctor and of the bed of that visit.
C30_InsertaConBloqueos ==
  [][CreateVisitInsertado =>
       LET v == visitas'[resp'.nodo][resp'.visita] IN
         {<<"DOCTOR", v.id_doctor>>, <<"BED", v.id_cama>>}
           \subseteq bloqueos_distribuidos(resp'.nodo)]_vars

\* What the program does on its own once a request was sent: the endpoint
\* of the receiving node takes a replication message and commits it.
EquidadStore ==
  /\ WF_vars(\E n \in Nodos : \E data \in red[n] : replicate_visit_recv(n, data))
  /\ WF_vars(\E n \in Nodos : \E h \in BagToSet(handlers[n]) : replicate_visit_commit(n, h))

\* Visit i of node n is closed, and node m holds a visit of the same folio.
CerradaEnOtro(n, i, m) ==
  /\ m # n
  /\ i <= Len(visitas[n])
  /\ visitas[n][i].estado = "completada"
  /\ \E j \in DOMAIN visitas[m] : visitas[m][j].folio = visitas[n][i].folio

\* Every visit of node m with the folio of visit i of node n is closed, and
\* its doctor and its bed are free on m.
CierreReplicado(n, i, m) ==
  /\ i <= Len(visitas[n])
  /\ \A j \in DOMAIN visitas[m] :
       visitas[m][j].folio = visitas[n][i].folio =>
         /\ visitas[m][j].estado = "completada"
         /\ doctores[m][visitas[m][j].id_doctor]
         /\ ~camas[m][visitas[m][j].id_cama].ocupada

\* C31: once a visit is closed on a node, every other node that holds the
\* visit eventually has it completed, with its doctor and its bed free.
C31_CierreLlega ==
  \A n \in Nodos : \A m \in Nodos : \A i \in 1..MaxVisitas :
    CerradaEnOtro(n, i, m) ~> CierreReplicado(n, i, m)

(***************************************************************************)
(*                                                                         *)
(* The discovery agent with its threads apart: the listen thread takes one *)
(* datagram at a time, the cleanup thread scans under the lock and removes *)
(* afterwards, one _remove_node call per node; every peer runs its         *)
(* announce thread and may call stop().  last_seen is kept as the age of   *)
(* the entry, time.time() - last_seen, in units of announce_interval, and  *)
(* counted up to node_timeout + 1.  The callbacks are registered.          *)
(*                                                                         *)
(***************************************************************************)
NumPares == 1
MaxEnVuelo == 2

Pares == 1..NumPares

\* The address and the ports (tcp, udp) a peer announces from; it has two
\* to choose from, one per start.
DireccionesDePar == {[host |-> "10.0.0.2", tcp_port |-> 5556, udp_port |-> 6556],
                     [host |-> "10.0.0.3", tcp_port |-> 5557, udp_port |-> 6557]}

ARespBase == [op |-> "ninguna", id |-> 0, descubierto |-> FALSE, perdido |-> FALSE,
              edad |-> 0]

ParBase == [running |-> TRUE, anuncio |-> "bucle", parada |-> "no",
            dir |-> CHOOSE d \in DireccionesDePar : d.tcp_port = 5556]

InitAgente ==
  /\ vecinos = << >>
  /\ limpieza = [pc |-> "dormido", por_quitar |-> {}]
  /\ canal = << >>
  /\ par = [p \in Pares |-> ParBase]
  /\ aresp = ARespBase

\* time.time() advances by one announce_interval.
pasa_tiempo ==
  /\ vecinos' = [n \in DOMAIN vecinos |->
                 [vecinos[n] EXCEPT !.edad = IF @ <= node_timeout THEN @ + 1 ELSE @]]
  /\ UNCHANGED <<limpieza, canal, par, aresp>>
  /\ UNCHANGED fueraDeAgente

\* The peer is started on its other address and ports.
cambia_direccion(p) ==
  /\ par[p].parada = "no"
  /\ \A i \in DOMAIN canal : canal[i].node_id # p
  /\ par' = [par EXCEPT ![p].dir = CHOOSE d \in DireccionesDePar : d # par[p].dir]
  /\ UNCHANGED <<vecinos, limpieza, canal, aresp>>
  /\ UNCHANGED fueraDeAgente

\* _announce_loop: while self.running
announce_loop(p) ==
  /\ par[p].anuncio = "bucle"
  /\ par' = [par EXCEPT ![p].anuncio = IF par[p].running THEN "enviar" ELSE "fin"]
  /\ UNCHANGED <<vecinos, limpieza, canal, aresp>>
  /\ UNCHANGED fueraDeAgente

\* _send_announce and the sleep; on a closed socket sendto raises, which the
\* loop logs.  tras_leave tells whether stop() had sent LEAVE already.
send_announce(p) ==
  /\ par[p].anuncio = "enviar"
  /\ Len(canal) < MaxEnVuelo
  /\ par' = [par EXCEPT ![p].anuncio = "bucle"]
  /\ canal' = IF par[p].parada = "cerrado" THEN canal
              ELSE Append(canal, [type |-> "ANNOUNCE", node_id |-> p,
                                  host |-> par[p].dir.host,
                                  tcp_port |-> par[p].dir.tcp_port,
                                  udp_port |-> par[p].dir.udp_port,
                                  tras_leave |-> par[p].parada = "leave"])
  /\ UNCHANGED <<vecinos, limpieza, aresp>>
  /\ UNCHANGED fueraDeAgente

\* stop(): self.running = False
stop_running(p) ==
  /\ par[p].parada = "no"
  /\ par' = [par EXCEPT ![p].running = FALSE, ![p].parada = "marcado"]
  /\ UNCHANGED <<vecinos, limpieza, canal, aresp>>
  /\ UNCHANGED fueraDeAgente

\* stop(): _send_leave_message
send_leave_message(p) ==
  /\ par[p].parada = "marcado"
  /\ Len(canal) < MaxEnVuelo
  /\ par' = [par EXCEPT ![p].parada = "leave"]
  /\ canal' = Append(canal, [type |-> "LEAVE", node_id |-> p,
                             host |-> par[p].dir.host,
                             tcp_port |-> par[p].dir.tcp_port,
                             udp_port |-> par[p].dir.udp_port,
                             tras_leave |-> FALSE])
  /\ UNCHANGED <<vecinos, limpieza, aresp>>
  /\ UNCHANGED fueraDeAgente

\* stop(): the sockets are closed.
stop_cierra(p) ==
  /\ par[p].parada = "leave"
  /\ par' = [par EXCEPT ![p].parada = "cerrado"]
  /\ UNCHANGED <<vecinos, limpieza, canal, aresp>>
  /\ UNCHANGED fueraDeAgente

\* A datagram is lost.
se_pierde ==
  /\ canal # << >>
  /\ canal' = Tail(canal)
  /\ UNCHANGED <<vecinos, limpieza, par, aresp>>
  /\ UNCHANGED fueraDeAgente

\* Variant: every ANNOUNCE counts as a discovery.
is_new_siempre(nodos, sender_id) == TRUE

\* is_new = sender_id not in self.discovered_nodes
is_new(nodos, sender_id) == sender_id \notin DOMAIN nodos

\* _handle_announce, under the lock.
recibir_announce ==
  /\ canal # << >>
  /\ Head(canal).type = "ANNOUNCE"
  /\ LET msg == Head(canal) IN
       /\ vecinos' = [n \in (DOMAIN vecinos) \cup {msg.node_id} |->
                      IF n = msg.node_id
                      THEN [host |-> msg.host, tcp_port |-> msg.tcp_port,
                            udp_port |-> msg.udp_port, edad |-> 0]
                      ELSE vecinos[n]]
       /\ aresp' = [ARespBase EXCEPT !.op = "handle_announce", !.id = msg.node_id,
                                     !.descubierto = is_new(vecinos, msg.node_id)]
  /\ canal' = Tail(canal)
  /\ UNCHANGED <<limpieza, par>>
  /\ UNCHANGED fueraDeAgente

\* Variant: on_node_lost is called whether the node was in the table or not.
on_lost_siempre(nodos, node_id) == TRUE

\* _remove_node: if node_id in self.discovered_nodes, pop it and call
\* on_node_lost.
on_lost(nodos, node_id) == node_id \in DOMAIN nodos

remove_node(op, node_id) ==
  /\ vecinos' = [n \in (DOMAIN vecinos) \ {node_id} |-> vecinos[n]]
  /\ aresp' = [ARespBase EXCEPT !.op = op, !.id = node_id,
                                !.perdido = on_lost(vecinos, node_id),
                                !.edad = IF node_id \in DOMAIN vecinos
                                         THEN vecinos[node_id].edad ELSE 0]

\* _handle_leave
recibir_leave ==
  /\ canal # << >>
  /\ Head(canal).type = "LEAVE"
  /\ remove_node("handle_leave", Head(canal).node_id)
  /\ canal' = Tail(canal)
  /\ UNCHANGED <<limpieza, par>>
  /\ UNCHANGED fueraDeAgente

\* _cleanup_loop, the scan under the lock: nodes_to_remove.
cleanup_scan ==
  /\ limpieza.pc = "dormido"
  /\ LET nodes_to_remove == {n \in DOMAIN vecinos : vencido(vecinos[n].edad)} IN
       /\ nodes_to_remove # {}
       /\ limpieza' = [pc |-> "quitando", por_quitar |-> nodes_to_remove]
  /\ UNCHANGED <<vecinos, canal, par, aresp>>
  /\ UNCHANGED fueraDeAgente

\* _cleanup_loop, after the lock was released: for node_id in
\* nodes_to_remove: self._remove_node(node_id), then the sleep.
cleanup_remove ==
  /\ limpieza.pc = "quitando"
  /\ LET node_id == Min(limpieza.por_quitar) IN
       /\ remove_node("cleanup", node_id)
       /\ limpieza' = IF limpieza.por_quitar = {node_id}
                      THEN [pc |-> "dormido", por_quitar |-> {}]
                      ELSE [limpieza EXCEPT !.por_quitar = @ \ {node_id}]
  /\ UNCHANGED <<canal, par>>
  /\ UNCHANGED fueraDeAgente

NextAgente ==
  \/ pasa_tiempo
  \/ \E p \in Pares : cambia_direccion(p)
  \/ \E p \in Pares : announce_loop(p)
  \/ \E p \in Pares : send_announce(p)
  \/ \E p \in Pares : stop_running(p)
  \/ \E p \in Pares : send_leave_message(p)
  \/ \E p \in Pares : stop_cierra(p)
  \/ se_pierde
  \/ recibir_announce
  \/ recibir_leave
  \/ cleanup_scan
  \/ cleanup_remove

\* The threads of the agent keep running, time passes, and a peer's
\* threads go on.
EquidadAgente ==
  /\ WF_vars(pasa_tiempo)
  /\ WF_vars(recibir_announce)
  /\ WF_vars(recibir_leave)
  /\ WF_vars(cleanup_scan)
  /\ WF_vars(cleanup_remove)
  /\ \A p \in Pares : WF_vars(announce_loop(p))

\* C32: after an ANNOUNCE of another node the table holds the host and the
\* ports of the message with the entry's age at zero, and on_node_discovered
\* is called exactly when the node was not in the table before the message.
C32_AnuncioRegistrado ==
  [][recibir_announce =>
       LET msg == Head(canal) IN
         /\ msg.node_id \in DOMAIN vecinos'
         /\ vecinos'[msg.node_id] = [host |-> msg.host, tcp_port |-> msg.tcp_port,
                                     udp_port |-> msg.udp_port, edad |-> 0]
         /\ aresp'.descubierto <=> (msg.node_id \notin DOMAIN vecinos)]_vars

\* An ANNOUNCE refreshed a peer that had moved to its other address, and no
\* discovery was reported.
C32_Witness ==
  /\ aresp.op = "handle_announce"
  /\ ~aresp.descubierto
  /\ aresp.id \in DOMAIN vecinos
  /\ vecinos[aresp.id].host = "10.0.0.3"
  /\ vecinos[aresp.id].tcp_port = 5557
  /\ vecinos[aresp.id].edad = 0

\* A step of _remove_node, called for a LEAVE or by the cleanup thread.
QuitaNodo == recibir_leave \/ cleanup_remove

\* C33: a _remove_node call takes the node out of the table and calls
\* on_node_lost exactly when the node was in the table, and changes nothing
\* when it was not; and a peer whose announce thread has ended is eventually
\* out of the table.
C33_QuitaUnaVez ==
  /\ [][QuitaNodo =>
          /\ aresp'.id \notin DOMAIN vecinos'
          /\ aresp'.perdido <=> (aresp'.id \in DOMAIN vecinos)
          /\ aresp'.id \notin DOMAIN vecinos => vecinos' = vecinos]_vars
  /\ \A p \in Pares : (par[p].anuncio = "fin") ~> (p \notin DOMAIN vecinos)

\* The cleanup thread came to remove a node that a LEAVE had removed since
\* the scan: nothing was reported.
C33_Witness ==
  /\ aresp.op = "cleanup"
  /\ ~aresp.perdido
  /\ \E p \in Pares : par[p].parada \in {"leave", "cerrado"}

\* C36: the cleanup thread removes a node, and calls on_node_lost, only
\* when the age of its entry at the moment of the removal is over
\* node_timeout.
C36_QuitaSoloVencidos ==
  (aresp.op = "cleanup" /\ aresp.perdido) => vencido(aresp.edad)

\* C37: no ANNOUNCE that a node sent after the LEAVE of its stop() is on
\* its way to the agent.
C37_SinAnuncioTrasLeave ==
  \A i \in DOMAIN canal : ~canal[i].tras_leave

(***************************************************************************)
(*                                                                         *)
(* obtener_siguiente_consecutivo of "Primer entregable.py", one call per   *)
(* step: the row of the node's sala is advanced and committed, and         *)
(* INCREMENTAR_CONSECUTIVO goes through propagar_transaccion_con_consenso: *)
(* every remote node that is reached runs it on its own row, and the       *)
(* caller runs it too when enough of them answered CONSENSO_OK.            *)
(*                                                                         *)
(***************************************************************************)
NumNodosSec == 3
MaxUltimo == 4

NodosSec == 1..NumNodosSec

QRespBase == [op |-> "ninguna", n |-> 0, antes |-> 0, devuelto |-> 0, consenso |-> FALSE]

InitConsecutivo ==
  /\ ultimo_consecutivo = [n \in NodosSec |-> 0]
  /\ qresp = QRespBase

\* ejecutar_transaccion_local, INCREMENTAR_CONSECUTIVO: the row is advanced,
\* or created at 1.
INCREMENTAR_CONSECUTIVO(ultimo) == ultimo + 1

\* The rows after the consensus round of a call of node n that found a row:
\* the remote nodes in alcanzados ran the command, and node n did when they
\* are enough.
TrasPropagar(filas, n, alcanzados) ==
  [m \in NodosSec |->
     IF m \in alcanzados THEN INCREMENTAR_CONSECUTIVO(filas[m])
     ELSE IF m = n /\ Cardinality(alcanzados) >= UmbralConsenso(NumNodosSec - 1)
          THEN INCREMENTAR_CONSECUTIVO(filas[m])
          ELSE filas[m]]

siguiente_consecutivo(n, alcanzados) ==
  /\ \A m \in NodosSec : ultimo_consecutivo[m] + 2 <= MaxUltimo
  /\ IF ultimo_consecutivo[n] = 0
     THEN /\ ultimo_consecutivo' = [ultimo_consecutivo EXCEPT ![n] = 1]
          /\ qresp' = [op |-> "obtener_siguiente_consecutivo", n |-> n, antes |-> 0,
                       devuelto |-> 1, consenso |-> FALSE]
     ELSE LET nuevo_consecutivo == ultimo_consecutivo[n] + 1
              escrito == [ultimo_consecutivo EXCEPT ![n] = nuevo_consecutivo]
          IN /\ ultimo_consecutivo' = TrasPropagar(escrito, n, alcanzados)
             /\ qresp' = [op |-> "obtener_siguiente_consecutivo", n |-> n,
                          antes |-> ultimo_consecutivo[n], devuelto |-> nuevo_consecutivo,
                          consenso |-> Cardinality(alcanzados)
                                         >= UmbralConsenso(NumNodosSec - 1)]
  /\ UNCHANGED fueraDeConsecutivo

NextConsecutivo ==
  \E n \in NodosSec : \E alcanzados \in SUBSET (NodosSec \ {n}) :
    siguiente_consecutivo(n, alcanzados)

\* C34: after a call the row of the caller is one above what it was, and the
\* call returned the value of the row, whatever the consensus round did.
C34_AvanzaEnUno ==
  qresp.op = "obtener_siguiente_consecutivo" =>
    /\ ultimo_consecutivo[qresp.n] = qresp.antes + 1
    /\ qresp.devuelto = ultimo_consecutivo[qresp.n]

(***************************************************************************)
(* C35.  The reply window of an election that got no OK.                   *)
(***************************************************************************)
\* The reply window of a CANDIDATE runs out: the step is taken once it can be.
EquidadBully == \A n \in Nodos : WF_vars(become_leader(n))

\* A step in which CANDIDATE n leaves that state while it stays up and no
\* message is taken from the network: no OK and no COORDINATOR reached it.
VentanaAgotada(n) ==
  /\ vivo[n] /\ vivo'[n]
  /\ state[n] = "CANDIDATE"
  /\ state'[n] # "CANDIDATE"
  /\ buzon \subseteq buzon'

\* The node runs alone as a CANDIDATE and nothing is on its way to it.
CandidatoSolo(n) ==
  /\ Vivos = {n}
  /\ state[n] = "CANDIDATE"
  /\ buzon = {}

\* C35: a CANDIDATE whose reply window ends with no OK from a higher-id peer
\* becomes LEADER with LeaderRef equal to itself and sends COORDINATOR of its
\* Term to every other running peer; a node that runs alone as a candidate
\* becomes its own leader (unless it is killed or a peer joins first).
C35_SinOKEsLider ==
  /\ [][\A n \in Nodos :
          VentanaAgotada(n) =>
            /\ state'[n] = "LEADER"
            /\ current_leader'[n] = n
            /\ \A m \in Vivos \ {n} :
                 COORDINATOR(current_term[n], n, m) \in buzon']_vars
  /\ \A n \in Nodos :
       CandidatoSolo(n) ~>
         ((state[n] = "LEADER" /\ current_leader[n] = n) \/ Vivos # {n})

\* A node whose window ran out leads itself and has its COORDINATOR on the
\* way to a running peer.
C35_Witness ==
  \E n \in Nodos : \E m \in Vivos \ {n} :
    /\ state[n] = "LEADER"
    /\ current_leader[n] = n
    /\ COORDINATOR(current_term[n], n, m) \in buzon

(***************************************************************************)
(* C38.  The stores after a consensus round that failed.                   *)
(***************************************************************************)
\* A round over at least one remote node that ends in failure.
ConsensoFallido ==
  /\ total_nodos >= 1
  /\ \E respuestas \in [1..total_nodos -> Respuestas], localOk \in BOOLEAN :
       propagar_transaccion_con_consenso(respuestas, localOk)
  /\ ~cresp'.ok

\* C38: when a majority-consensus command ends in failure no node has applied
\* it: the store of the originator and the store of every remote node, those
\* that answered CONSENSO_OK included, are as they were before the round.
C38_FallidoSinAplicar ==
  [][ConsensoFallido =>
       /\ almacen' = almacen
       /\ almacen_remoto' = almacen_remoto]_vars

(***************************************************************************)
(* C39.  Whose entries a release deletes.                                  *)
(***************************************************************************)
\* Node y holds the lock of k: its acquire returned True and wrote its own
\* entry, which it has not released.
Posee(y, k) == y \in entradas[y][k]

\* C39: a release issued by node n, in its own table or through
\* LIBERAR_BLOQUEO in the table of a remote node, deletes no entry that was
\* written for another node y that holds the lock.
C39_LiberaSoloLoPropio ==
  [][\A n \in NodosCandado : \A k \in ClavesCandado :
       (\E alcanzados \in SUBSET conocidos[n] :
          liberar_bloqueo_distribuido(n, k, alcanzados))
       => \A y \in NodosCandado \ {n} :
            Posee(y, k) =>
              \A m \in NodosCandado :
                (y \in entradas[m][k]) => (y \in entradas'[m][k])]_vars

(***************************************************************************)
(*                                                                         *)
(* One CreateVisit proxied by a follower, with the leaders it reaches:     *)
(* the retry loop of create_visit on the follower and the endpoint         *)
(* create_visit_distributed on whichever node leads when an attempt is     *)
(* posted.  A post does not arrive (ConnectionError), or it arrives and    *)
(* the endpoint runs; its response reaches the follower within the 10 s    *)
(* of requests.post or does not (Timeout).                                 *)
(*                                                                         *)
(***************************************************************************)
\* The nodes that can lead.
NumLideres == 2
Lideres == 1..NumLideres

VRespBase == [op |-> "ninguna", ok |-> FALSE, error |-> "ninguno"]

InitReenvio ==
  /\ lider_http = 0
  /\ doctor_libre = [l \in Lideres |-> TRUE]
  /\ creadas = [l \in Lideres |-> 0]
  /\ vuelta = 0
  /\ etapa = "menu"
  /\ vresp = VRespBase

\* The election engine names another leader, or none.
eleccion_http(l) ==
  /\ l # lider_http
  /\ lider_http' = l
  /\ UNCHANGED <<doctor_libre, creadas, vuelta, etapa, vresp>>
  /\ UNCHANGED fueraDeReenvio

\* Another request takes the doctor or the bed on node l.
otra_visita(l) ==
  /\ doctor_libre[l]
  /\ doctor_libre' = [doctor_libre EXCEPT ![l] = FALSE]
  /\ UNCHANGED <<lider_http, creadas, vuelta, etapa, vresp>>
  /\ UNCHANGED fueraDeReenvio

\* FOLLOWER PATH of create_visit: the retry loop starts.
create_visit_reintentos ==
  /\ etapa = "menu"
  /\ etapa' = "reintentos"
  /\ vuelta' = 0
  /\ UNCHANGED <<lider_http, doctor_libre, creadas, vresp>>
  /\ UNCHANGED fueraDeReenvio

\* The total of visits created for the request.
RECURSIVE TotalCreadas(_, _)
TotalCreadas(c, l) == IF l = 0 THEN 0 ELSE c[l] + TotalCreadas(c, l - 1)

\* create_visit_distributed: "if not doctor.disponible" / "if cama.ocupada"
\* answer 409.
recursos_libres(l) == doctor_libre[l]

\* One pass of the loop.  An HTTP error, a Timeout and a ConnectionError go
\* on to the next attempt, and end the action with False on the last one.
intento_http(llega, replicada, responde) ==
  /\ etapa = "reintentos"
  /\ vuelta < max_retries
  /\ UNCHANGED lider_http
  /\ UNCHANGED fueraDeReenvio
  /\ LET l == lider_http
         creada == l # 0 /\ llega /\ recursos_libres(l)
         error == IF l = 0 THEN "NoLeader"
                  ELSE IF ~llega THEN "ConnectionError"
                  ELSE IF ~recursos_libres(l) THEN "http_error"
                  ELSE IF ~responde THEN "Timeout"
                  ELSE "ninguno"
     IN /\ creadas' = IF creada THEN [creadas EXCEPT ![l] = @ + 1] ELSE creadas
        /\ doctor_libre' =
             IF creada
             THEN [m \in Lideres |-> IF m = l \/ replicada THEN FALSE ELSE doctor_libre[m]]
             ELSE doctor_libre
        /\ IF error = "ninguno"
           THEN /\ etapa' = "fin"
                /\ vresp' = [op |-> "create_visit", ok |-> TRUE, error |-> error]
                /\ UNCHANGED vuelta
           ELSE IF error # "NoLeader" /\ vuelta < max_retries - 1
                THEN /\ vuelta' = vuelta + 1
                     /\ UNCHANGED <<etapa, vresp>>
                ELSE /\ etapa' = "fin"
                     /\ vresp' = [op |-> "create_visit", ok |-> FALSE, error |-> error]
                     /\ UNCHANGED vuelta

NextReenvio ==
  \/ \E l \in 0..NumLideres : eleccion_http(l)
  \/ \E l \in Lideres : otra_visita(l)
  \/ create_visit_reintentos
  \/ \E llega \in BOOLEAN, replicada \in BOOLEAN, responde \in BOOLEAN :
       intento_http(llega, replicada, responde)

\* C40: for one proxied CreateVisit the leaders create at most one visit
\* over all the attempts, and the follower reports success exactly when a
\* visit was created for the request.
C40_UnaVisitaYExitoFiel ==
  /\ TotalCreadas(creadas, NumLideres) <= 1
  /\ (vresp.op = "create_visit") =>
       (vresp.ok <=> TotalCreadas(creadas, NumLideres) >= 1)

(***************************************************************************)
(* The specifications.  Each machine runs while the others rest.           *)
(***************************************************************************)
Init == InitStore /\ InitLegacy /\ InitBully /\ InitConsenso /\ InitHistoria /\ InitProxy /\ InitReplica /\ InitIdentidad /\ InitDiscovery /\ InitStats /\ InitCandado /\ InitFlujo /\ InitAgente /\ InitConsecutivo /\ InitReenvio

InitCfg == InitStore /\ InitLegacy /\ InitBully /\ InitConsensoCfg /\ InitHistoria /\ InitProxy /\ InitReplica /\ InitIdentidad /\ InitDiscovery /\ InitStats /\ InitCandado /\ InitFlujo /\ InitAgente /\ InitConsecutivo /\ InitReenvio

InitCfgCandado == InitStore /\ InitLegacy /\ InitBully /\ InitConsenso /\ InitHistoria /\ InitProxy /\ InitReplica /\ InitIdentidad /\ InitDiscovery /\ InitStats /\ InitCandadoCfg /\ InitFlujo /\ InitAgente /\ InitConsecutivo /\ InitReenvio

InitVivo == InitStore /\ InitLegacy /\ InitBullyVivo /\ InitConsenso /\ InitHistoriaVivo /\ InitProxy /\ InitReplica /\ InitIdentidad /\ InitDiscovery /\ InitStats /\ InitCandado /\ InitFlujo /\ InitAgente /\ InitConsecutivo /\ InitReenvio

SpecBullyVivo == InitVivo /\ [][NextBullyVivo]_vars /\ FairBullyVivo

SpecConsenso == InitCfg /\ [][NextConsenso]_vars

SpecStore == Init /\ [][NextStore]_vars

SpecStoreVivo == Init /\ [][NextStore]_vars /\ EquidadStore

SpecLegacy == Init /\ [][NextLegacy]_vars

SpecBully == Init /\ [][NextBully]_vars

SpecBullyJusto == Init /\ [][NextBully]_vars /\ EquidadBully

SpecProxy == Init /\ [][NextProxy]_vars

SpecReplica == Init /\ [][NextReplica]_vars

SpecGenerador == Init /\ [][NextGenerador]_vars

SpecIdentidad == Init /\ [][NextIdentidad]_vars

SpecDiscovery == Init /\ [][NextDiscovery]_vars

SpecStats == Init /\ [][NextStats]_vars

SpecCandado == InitCfgCandado /\ [][NextCandado]_vars

SpecCandadoVivo == InitCfgCandado /\ [][NextCandado]_vars /\ EquidadCandado

SpecFlujo == Init /\ [][NextFlujo]_vars

SpecAgente == Init /\ [][NextAgente]_vars

SpecAgenteVivo == Init /\ [][NextAgente]_vars /\ EquidadAgente

SpecConsecutivo == Init /\ [][NextConsecutivo]_vars

SpecReenvio == Init /\ [][NextReenvio]_vars

=============================================================================
